---- MODULE Spec2Model ----
(***************************************************************************)
(* A model of the BinFBX codec (src/tool/BinFBX.h, src/tool/BinFBX.cpp)    *)
(* and of the mesh tool that drives it (src/tool/MeshTool.cpp,             *)
(* src/tool/Main.cpp).                                                     *)
(*                                                                         *)
(* A file is a sequence of bytes (0..255).  The constructors walk it with  *)
(* one iterator `it` (a 0-based offset) exactly as the C++ does, without   *)
(* any bounds check; a read past the end of a vector is undefined          *)
(* behaviour and is modelled as either a crash or a read of zero bytes.    *)
(* Fields the code copies with memcpy and never interprets are kept as     *)
(* their raw bytes; 32-bit counts are kept as numbers.                     *)
(***************************************************************************)
EXTENDS Integers, Sequences, FiniteSets, TLC

(***************************************************************************)
(* Bounds of the explored inputs.                                          *)
(***************************************************************************)
MaxJoints == 1
MaxMaterials == 2
MaxAlternateMaps == 1
MaxMeshes0 == 2
MaxMeshes1 == 1
MaxRemoves == 2
MaxCDFLength == 3

(***************************************************************************)
(* Program constants.                                                      *)
(***************************************************************************)
BinFBXMagick == 46
MaterialMagick == 7
HeaderSize == 20

\* enum UniformVariableType
Float == 0
Range == 1
Vector == 2
Color == 3
TextureSampler == 8
TextureMap == 9
Boolean == 12
NoPayload == 16

\* enum AttributeType
FLOAT3 == 2
BYTE4_SNORM == 4
BYTE4_UNORM == 5
SHORT2_SNORM == 7
SHORT4_SNORM == 8
SHORT4_UINT == 13
BYTE4_UINT == 15

(***************************************************************************)
(* Bytes.                                                                  *)
(***************************************************************************)
\* *it for an iterator at offset p of the vector mem; the memory behind the
\* vector's end, when the run survives the read, holds zero bytes.
ByteAt(mem, p) == IF p < Len(mem) THEN mem[p + 1] ELSE 0

\* n bytes starting at offset p (memcpy / std::copy / the string constructor).
Bytes(mem, p, n) == [i \in 1..n |-> ByteAt(mem, p + i - 1)]

\* The little-endian value of a byte sequence.
RECURSIVE LEValue(_)
LEValue(bs) == IF bs = <<>> THEN 0 ELSE bs[1] + 256 * LEValue(Tail(bs))

\* The w low-order bytes of n, little-endian: storing n in a w-byte integer.
RECURSIVE LEBytes(_, _)
LEBytes(n, w) == IF w = 0 THEN <<>> ELSE <<n % 256>> \o LEBytes(n \div 256, w - 1)

\* *reinterpret_cast<const uint32_t*>(&(*it))
U32At(mem, p) == LEValue(Bytes(mem, p, 4))

\* out.write(reinterpret_cast<const char*>(&size), sizeof(uint32_t))
U32Bytes(n) == LEBytes(n, 4)

Zeros(n) == [i \in 1..n |-> 0]

RECURSIVE Flatten(_)
Flatten(ss) ==
    IF ss = <<>> THEN <<>>
    ELSE IF Len(ss) = 1 THEN ss[1]
    ELSE Flatten(SubSeq(ss, 1, Len(ss) \div 2))
         \o Flatten(SubSeq(ss, Len(ss) \div 2 + 1, Len(ss)))

\* v.erase(v.begin() + (p - 1)), p counted from 1
EraseAt(s, p) == [i \in 1..(Len(s) - 1) |-> IF i < p THEN s[i] ELSE s[i + 1]]

(***************************************************************************)
(* IEEE-754 single precision.  FloatBits(n, d) is the bit pattern of the   *)
(* float nearest to n/d (n >= 0, d > 0), round to nearest even, as 4       *)
(* little-endian bytes.                                                    *)
(***************************************************************************)
RECURSIVE FloatNormalize(_, _, _)
FloatNormalize(n, d, e) ==
    IF n >= 2 * d THEN FloatNormalize(n, 2 * d, e + 1)
    ELSE IF n < d THEN FloatNormalize(2 * n, d, e - 1)
    ELSE [n |-> n, d |-> d, e |-> e]

\* The 23 fraction bits of r/d in [0,1), with the remainder left over.
RECURSIVE FloatFraction(_, _, _, _)
FloatFraction(r, d, bits, m) ==
    IF bits = 0 THEN [m |-> m, r |-> r]
    ELSE IF 2 * r >= d THEN FloatFraction(2 * r - d, d, bits - 1, 2 * m + 1)
    ELSE FloatFraction(2 * r, d, bits - 1, 2 * m)

FloatBits(n, d) ==
    IF n = 0 THEN Zeros(4)
    ELSE LET z == FloatNormalize(n, d, 0)
             f == FloatFraction(z.n - z.d, z.d, 23, 0)
             up == (2 * f.r > z.d) \/ (2 * f.r = z.d /\ f.m % 2 = 1)
             m == IF up THEN f.m + 1 ELSE f.m
         IN  U32Bytes((z.e + 127) * 8388608 + m)

FloatOne == FloatBits(1, 1)

\* The order of two non-negative floats is the order of their bit patterns.
FloatLeq(a, b) == LEValue(a) <= LEValue(b)
FloatNonNegative(a) == a[4] < 128

\* The value of a float that holds a whole number 0..MaxCoordinate (the vertex
\* positions of the explored inputs lie on that grid).
MaxCoordinate == 4
FloatValue(bs) == CHOOSE n \in 0..MaxCoordinate : FloatBits(n, 1) = bs

\* std::sqrt of a perfect square.
Sqrt(s) == CHOOSE r \in 0..s : r * r = s

(***************************************************************************)
(* Length-prefixed string: a 4-byte count, then that many bytes.           *)
(***************************************************************************)
ReadString(mem, it) ==
    LET n == U32At(mem, it)
    IN  [v |-> Bytes(mem, it + 4, n), it |-> it + 4 + n]

WriteString(s) == U32Bytes(Len(s)) \o s

(***************************************************************************)
(* Joint                                                                   *)
(***************************************************************************)
JointCtor(mem, it) ==
    LET name == ReadString(mem, it)
        i1 == name.it
    IN  [v |-> [mName |-> name.v,
                mMatrix |-> Bytes(mem, i1, 48),
                mEnvelope |-> Bytes(mem, i1 + 48, 12),
                mRadius |-> Bytes(mem, i1 + 60, 4),
                mParent |-> Bytes(mem, i1 + 64, 4)],
         it |-> i1 + 68]

\* A Write that leaves out the parent of the joint.
JointWriteWithoutParent(j) ==
    WriteString(j.mName) \o j.mMatrix \o j.mEnvelope \o j.mRadius

JointWrite(j) ==
    WriteString(j.mName) \o j.mMatrix \o j.mEnvelope \o j.mRadius \o j.mParent

(***************************************************************************)
(* UniformVariable.  mData holds the payload bytes of the variant; the     *)
(* empty sequence is std::monostate.                                       *)
(***************************************************************************)
\* The payload the switch of the constructor reads for a type tag; a tag
\* with no case reads nothing and the constructor returns normally.
UniformPayload(mem, it, type) ==
    CASE type = Float -> [v |-> Bytes(mem, it, 4), it |-> it + 4]
      [] type = Range -> [v |-> Bytes(mem, it, 8), it |-> it + 8]
      [] type = Color -> [v |-> Bytes(mem, it, 16), it |-> it + 16]
      [] type = Vector -> [v |-> Bytes(mem, it, 12), it |-> it + 12]
      [] type = TextureMap -> ReadString(mem, it)
      [] type = TextureSampler -> [v |-> <<>>, it |-> it]
      [] type = Boolean -> [v |-> Bytes(mem, it, 4), it |-> it + 4]
      [] type = NoPayload -> [v |-> <<>>, it |-> it]
      [] OTHER -> [v |-> <<>>, it |-> it]

UniformVariableCtor(mem, it) ==
    LET name == ReadString(mem, it)
        type == U32At(mem, name.it)
        data == UniformPayload(mem, name.it + 4, type)
    IN  [v |-> [mName |-> name.v, mUniformType |-> type, mData |-> data.v],
         it |-> data.it]

\* A Write that emits the string of a TextureMap without its length.
UniformVariableWriteRawString(u) ==
    WriteString(u.mName) \o U32Bytes(u.mUniformType) \o
    (CASE u.mUniformType \in {Float, Range, Color, Vector, Boolean, TextureMap} -> u.mData
       [] OTHER -> <<>>)

UniformVariableWrite(u) ==
    WriteString(u.mName) \o U32Bytes(u.mUniformType) \o
    (CASE u.mUniformType \in {Float, Range, Color, Vector, Boolean} -> u.mData
       [] u.mUniformType = TextureMap -> WriteString(u.mData)
       [] OTHER -> <<>>)

RECURSIVE UniformVariables(_, _, _)
UniformVariables(mem, it, count) ==
    IF count <= 0 THEN [v |-> <<>>, it |-> it]
    ELSE LET u == UniformVariableCtor(mem, it)
             rest == UniformVariables(mem, u.it, count - 1)
         IN  [v |-> <<u.v>> \o rest.v, it |-> rest.it]

(***************************************************************************)
(* Material.  ok = FALSE is the std::runtime_error("Invalid Material.").   *)
(***************************************************************************)
\* The fields behind the magick, read from i1.
MaterialFields(mem, i1) ==
    LET name == ReadString(mem, i1 + 8)
        type == ReadString(mem, name.it)
        path == ReadString(mem, type.it)
        count == U32At(mem, path.it + 24)
        vars == UniformVariables(mem, path.it + 28, count)
    IN  [ok |-> TRUE,
         v |-> [mMaterialId |-> Bytes(mem, i1, 8),
                mName |-> name.v, mType |-> type.v, mPath |-> path.v,
                mMaterialParams |-> Bytes(mem, path.it, 24),
                mUniformVariables |-> vars.v],
         it |-> vars.it]

\* A constructor without the magick check (what the check is compared with).
MaterialCtorUnchecked(mem, it) == MaterialFields(mem, it + 4)

MaterialCtor(mem, it) ==
    IF U32At(mem, it) # MaterialMagick THEN [ok |-> FALSE, it |-> it + 4]
    ELSE MaterialFields(mem, it + 4)

MaterialWrite(m) ==
    U32Bytes(7) \o m.mMaterialId \o WriteString(m.mName) \o WriteString(m.mType)
    \o WriteString(m.mPath) \o m.mMaterialParams
    \o U32Bytes(Len(m.mUniformVariables))
    \o Flatten([i \in 1..Len(m.mUniformVariables) |->
                   UniformVariableWrite(m.mUniformVariables[i])])

\* The loop that emplaces the materials; a throwing constructor ends it.
RECURSIVE Materials(_, _, _)
Materials(mem, it, count) ==
    IF count <= 0 THEN [ok |-> TRUE, v |-> <<>>, it |-> it]
    ELSE LET m == MaterialCtor(mem, it)
         IN  IF ~m.ok THEN [ok |-> FALSE, it |-> m.it]
             ELSE LET rest == Materials(mem, m.it, count - 1)
                  IN  IF ~rest.ok THEN rest
                      ELSE [ok |-> TRUE, v |-> <<m.v>> \o rest.v, it |-> rest.it]

(***************************************************************************)
(* AttributeInfo and the per-format vertex sizes.                          *)
(***************************************************************************)
AttributeInfoCtor(mem, it) ==
    [v |-> [Index |-> ByteAt(mem, it), Type |-> ByteAt(mem, it + 1),
            Usage |-> ByteAt(mem, it + 2), Zero |-> ByteAt(mem, it + 3)],
     it |-> it + 4]

AttributeInfoBytes(a) == <<a.Index, a.Type, a.Usage, a.Zero>>

\* count records in a row, each constructor moving the iterator by four.
AttributeInfos(mem, it, count) ==
    [v |-> [i \in 1..count |-> AttributeInfoCtor(mem, it + 4 * (i - 1)).v],
     it |-> it + 4 * count]

\* The bytes the switch of GetVertexSizes adds for a format (none for a
\* format without a case).
AttributeSize(type) ==
    CASE type = FLOAT3 -> 12
      [] type \in {BYTE4_SNORM, BYTE4_UNORM, BYTE4_UINT, SHORT2_SNORM} -> 4
      [] type \in {SHORT4_SNORM, SHORT4_UINT} -> 8
      [] OTHER -> 0

\* The element of the result tuple an attribute adds to:
\* (i.Index) ? &std::get<0>(result) : &std::get<1>(result).
\* Tuples are counted from 1 here: result[1] is std::get<0>.
SizeSlot(a) == IF a.Index # 0 THEN 1 ELSE 2

RECURSIVE GetVertexSizesFrom(_, _)
GetVertexSizesFrom(attrs, result) ==
    IF attrs = <<>> THEN result
    ELSE IF Len(attrs) = 1
    THEN [result EXCEPT ![SizeSlot(attrs[1])] = @ + AttributeSize(attrs[1].Type)]
    ELSE LET first == GetVertexSizesFrom(SubSeq(attrs, 1, Len(attrs) \div 2), result)
             second == GetVertexSizesFrom(SubSeq(attrs, Len(attrs) \div 2 + 1, Len(attrs)),
                                          <<0, 0>>)
         IN  <<first[1] + second[1], first[2] + second[2]>>

GetVertexSizes(mesh) == GetVertexSizesFrom(mesh.mAttributeInfos, <<0, 0>>)

(***************************************************************************)
(* Mesh: the record fields, then the local buffers.                        *)
(***************************************************************************)
ValidIndexSize(w) == w \in {1, 2, 4, 8}

\* The index the first switch of the loop reads for slot s (i * 3 + j); no
\* case of the switch matches another width and index stays 0.
SharedIndex(aIndexBuffer, aIndexSize, offset, s) ==
    IF ValidIndexSize(aIndexSize)
    THEN LEValue(Bytes(aIndexBuffer, (offset + s) * aIndexSize, aIndexSize))
    ELSE 0

\* index_to_local as the global indices in the order they were inserted:
\* index_to_local[index] = index_to_local.size() gives the n-th inserted
\* index the value n - 1 (the right operand is evaluated first).
\* A lookup that gives every index the local index of the newest entry.
LocalIndexOfNewest(map, index) == Len(map) - 1

LocalIndex(map, index) == (CHOOSE n \in 1..Len(map) : map[n] = index) - 1

\* A lookup that never finds the index (no de-duplication).
KnownNever(map, index) == FALSE

Known(map, index) == \E n \in 1..Len(map) : map[n] = index

\* A store that keeps the low seven bits of the local index.
StoreIndexSevenBits(buf, w, s, local) ==
    IF ValidIndexSize(w)
    THEN SubSeq(buf, 1, s * w) \o LEBytes(local % 128, w)
         \o SubSeq(buf, s * w + w + 1, Len(buf))
    ELSE buf

\* The second switch of the loop: the local index stored in slot s.
StoreIndex(buf, w, s, local) ==
    IF ValidIndexSize(w)
    THEN SubSeq(buf, 1, s * w) \o LEBytes(local, w) \o SubSeq(buf, s * w + w + 1, Len(buf))
    ELSE buf

\* One pass of the inner loop body for slot s.
LocalizeSlot(st, s, mesh, aVertexBuffers, aIndexBuffer, stride) ==
    LET index == SharedIndex(aIndexBuffer, mesh.mIndexSize, mesh.mIndexBufferOffset, s)
        new == ~Known(st.map, index)
        map == IF new THEN Append(st.map, index) ELSE st.map
        copy(k) == Bytes(aVertexBuffers[k],
                         mesh.mVertexBufferOffsets[k] + index * stride[k], stride[k])
    IN  [map |-> map,
         vb |-> IF new THEN <<st.vb[1] \o copy(1), st.vb[2] \o copy(2)>> ELSE st.vb,
         ib |-> StoreIndex(st.ib, mesh.mIndexSize, s, LocalIndex(map, index))]

\* The passes for the n slots from s on, one after the other: the first
\* half of them, then the second half from the state `mid` the first half
\* has left (bound as a value, so that it is computed once).
RECURSIVE Localize(_, _, _, _, _, _, _)
Localize(st, s, n, mesh, aVertexBuffers, aIndexBuffer, stride) ==
    IF n <= 0 THEN st
    ELSE IF n = 1 THEN LocalizeSlot(st, s, mesh, aVertexBuffers, aIndexBuffer, stride)
    ELSE CHOOSE r \in
           { Localize(mid, s + n \div 2, n - n \div 2, mesh, aVertexBuffers, aIndexBuffer,
                      stride) :
               mid \in {Localize(st, s, n \div 2, mesh, aVertexBuffers, aIndexBuffer,
                                  stride)} } : TRUE

\* The fields of the record at `it`, with the local buffers still empty
\* (everything the constructor does before its loop).
MeshRecord(aIndex, aIndexSize, mem, it, attrs) ==
    [v |-> [mIndex |-> aIndex, mIndexSize |-> aIndexSize,
            mLOD |-> U32At(mem, it),
            mVertexCount |-> U32At(mem, it + 4),
            mTriangleCount |-> U32At(mem, it + 8),
            mVertexBufferOffsets |-> <<U32At(mem, it + 12), U32At(mem, it + 16)>>,
            mIndexBufferOffset |-> U32At(mem, it + 20),
            mMeshFlags0 |-> Bytes(mem, it + 24, 4),
            mBoundingSphere |-> Bytes(mem, it + 28, 16),
            mBoundingBox |-> Bytes(mem, it + 44, 24),
            mMeshFlags1 |-> Bytes(mem, it + 68, 4),
            mAttributeInfos |-> attrs.v,
            mJoint |-> Bytes(mem, attrs.it, 4),
            mUnknown3 |-> Bytes(mem, attrs.it + 4, 4),
            mIsRigidMesh |-> ByteAt(mem, attrs.it + 8),
            mUnknown5 |-> Bytes(mem, attrs.it + 9, 4),
            mVertexBuffers |-> <<<<>>, <<>>>>, mIndexBuffer |-> <<>>],
     it |-> attrs.it + 13]

\* The loop of the constructor over the triangleCount * 3 index slots.
MeshLocalBuffers(mesh, aVertexBuffers, aIndexBuffer) ==
    Localize([map |-> <<>>, vb |-> <<<<>>, <<>>>>,
              ib |-> Zeros(mesh.mIndexSize * mesh.mTriangleCount * 3)],
             0, mesh.mTriangleCount * 3, mesh, aVertexBuffers, aIndexBuffer,
             GetVertexSizes(mesh))

MeshLocalized(m, local) ==
    [m EXCEPT !.v.mVertexBuffers = local.vb, !.v.mIndexBuffer = local.ib]

MeshFrom(m, aVertexBuffers, aIndexBuffer) ==
    MeshLocalized(m, MeshLocalBuffers(m.v, aVertexBuffers, aIndexBuffer))

MeshCtor(aIndex, aVertexBuffers, aIndexBuffer, aIndexSize, mem, it) ==
    MeshFrom(MeshRecord(aIndex, aIndexSize, mem, it,
                        AttributeInfos(mem, it + 73, ByteAt(mem, it + 72))),
             aVertexBuffers, aIndexBuffer)

\* A Write that emits the attribute count as a 4-byte count.
MeshWriteWideCount(m) ==
    U32Bytes(m.mLOD) \o U32Bytes(m.mVertexCount) \o U32Bytes(m.mTriangleCount)
    \o U32Bytes(m.mVertexBufferOffsets[1]) \o U32Bytes(m.mVertexBufferOffsets[2])
    \o U32Bytes(m.mIndexBufferOffset) \o m.mMeshFlags0 \o m.mBoundingSphere
    \o m.mBoundingBox \o m.mMeshFlags1
    \o U32Bytes(Len(m.mAttributeInfos))
    \o Flatten([i \in 1..Len(m.mAttributeInfos) |-> AttributeInfoBytes(m.mAttributeInfos[i])])
    \o m.mJoint \o m.mUnknown3 \o <<m.mIsRigidMesh>> \o m.mUnknown5

MeshWrite(m) ==
    U32Bytes(m.mLOD) \o U32Bytes(m.mVertexCount) \o U32Bytes(m.mTriangleCount)
    \o U32Bytes(m.mVertexBufferOffsets[1]) \o U32Bytes(m.mVertexBufferOffsets[2])
    \o U32Bytes(m.mIndexBufferOffset) \o m.mMeshFlags0 \o m.mBoundingSphere
    \o m.mBoundingBox \o m.mMeshFlags1
    \o <<Len(m.mAttributeInfos) % 256>>
    \o Flatten([i \in 1..Len(m.mAttributeInfos) |-> AttributeInfoBytes(m.mAttributeInfos[i])])
    \o m.mJoint \o m.mUnknown3 \o <<m.mIsRigidMesh>> \o m.mUnknown5

\* Whether the loop of the constructor stayed inside the shared buffers.
LocalizationInBounds(mesh, aVertexBuffers, aIndexBuffer) ==
    LET w == mesh.mIndexSize
        n == mesh.mTriangleCount * 3
        stride == GetVertexSizes(mesh)
    IN  /\ (ValidIndexSize(w) /\ n > 0) =>
              (mesh.mIndexBufferOffset + n) * w <= Len(aIndexBuffer)
        /\ \A s \in 0..(n - 1) : \A k \in 1..2 :
              stride[k] > 0 =>
                 mesh.mVertexBufferOffsets[k]
                   + (SharedIndex(aIndexBuffer, w, mesh.mIndexBufferOffset, s) + 1) * stride[k]
                 <= Len(aVertexBuffers[k])

(***************************************************************************)
(* BinFBX: the constructor.  ok = FALSE is a thrown std::runtime_error     *)
(* (no object exists); `it` is the offset behind the last byte read.       *)
(***************************************************************************)
RECURSIVE Joints(_, _, _)
Joints(mem, it, count) ==
    IF count <= 0 THEN [v |-> <<>>, it |-> it]
    ELSE LET j == JointCtor(mem, it)
             rest == Joints(mem, j.it, count - 1)
         IN  [v |-> <<j.v>> \o rest.v, it |-> rest.it]

\* count values of `size` bytes each, kept as their bytes (floats).
RawArray(mem, it, count, size) ==
    [v |-> [i \in 1..count |-> Bytes(mem, it + (i - 1) * size, size)],
     it |-> it + count * size]

\* count uint32 values.
U32Array(mem, it, count) ==
    [v |-> [i \in 1..count |-> U32At(mem, it + (i - 1) * 4)], it |-> it + count * 4]

RECURSIVE AlternateMaterialMaps(_, _, _, _)
AlternateMaterialMaps(mem, it, count, size) ==
    IF count <= 0 THEN [v |-> <<>>, it |-> it]
    ELSE LET name == ReadString(mem, it)
             map == U32Array(mem, name.it, size)
             rest == AlternateMaterialMaps(mem, map.it, count - 1, size)
         IN  [v |-> <<[name |-> name.v, map |-> map.v]>> \o rest.v, it |-> rest.it]

\* The loop over the mesh records of one group: index restarts at 0 when the
\* LOD of the next record differs from the LOD of the one before.
RECURSIVE MeshGroup(_, _, _, _, _, _, _, _)
MeshGroup(mem, it, count, lod, index, aVertexBuffers, aIndexBuffer, aIndexSize) ==
    IF count <= 0 THEN [v |-> <<>>, it |-> it]
    ELSE LET next == U32At(mem, it)
             idx == IF lod # next THEN 0 ELSE index
             m == MeshCtor(idx, aVertexBuffers, aIndexBuffer, aIndexSize, mem, it)
             rest == MeshGroup(mem, m.it, count - 1, next, idx + 1,
                               aVertexBuffers, aIndexBuffer, aIndexSize)
         IN  [v |-> <<m.v>> \o rest.v, it |-> rest.it]

MeshGroupAt(mem, it, aVertexBuffers, aIndexBuffer, aIndexSize) ==
    MeshGroup(mem, it + 4, U32At(mem, it), U32At(mem, it + 4), 0,
              aVertexBuffers, aIndexBuffer, aIndexSize)

\* The members as their default initialisers leave them.
BinFBXMembers ==
    [mVertexBuffers |-> <<<<>>, <<>>>>, mIndexBuffer |-> <<>>, mIndexSize |-> 0,
     mJoints |-> <<>>, mReservedInts |-> Zeros(8), mGlobalScale |-> Zeros(4),
     mLODThresholds |-> <<>>, mMirrorSign |-> Zeros(4), mAABBCenter |-> Zeros(12),
     mBoundingSphereRadius |-> Zeros(4), mAABBMin |-> Zeros(12), mAABBMax |-> Zeros(12),
     mGlobalLODCount |-> 0, mMaterials |-> <<>>, mMaterialMaps |-> <<<<>>, <<>>>>,
     mAlternateMaterialMaps |-> <<>>, mMeshes |-> <<<<>>, <<>>>>,
     mTailReserved0 |-> 0, mTotalSurfaceArea |-> Zeros(4), mTriangleAreaCDF |-> <<>>]

\* The constructor, block by block.  Each block takes the object built so
\* far with the iterator (st = [ok, v, it]) and gives the next one.
ReadBuffers(aBuffer) ==
    LET size0 == U32At(aBuffer, 4)
        size1 == U32At(aBuffer, 8)
        bytes == U32At(aBuffer, 12) * U32At(aBuffer, 16)
    IN  [ok |-> TRUE,
         v |-> [BinFBXMembers EXCEPT
                  !.mVertexBuffers = <<Bytes(aBuffer, HeaderSize, size0),
                                       Bytes(aBuffer, HeaderSize + size0, size1)>>,
                  !.mIndexBuffer = Bytes(aBuffer, HeaderSize + size0 + size1, bytes),
                  !.mIndexSize = U32At(aBuffer, 16)],
         it |-> HeaderSize + size0 + size1 + bytes]

ReadJoints(aBuffer, st) ==
    LET joints == Joints(aBuffer, st.it + 4, U32At(aBuffer, st.it))
    IN  [st EXCEPT !.v.mJoints = joints.v, !.it = joints.it]

ReadGlobalParams(aBuffer, st) ==
    LET thresholds == RawArray(aBuffer, st.it + 16, U32At(aBuffer, st.it + 12), 4)
        i3 == thresholds.it
    IN  [st EXCEPT !.v.mReservedInts = Bytes(aBuffer, st.it, 8),
                   !.v.mGlobalScale = Bytes(aBuffer, st.it + 8, 4),
                   !.v.mLODThresholds = thresholds.v,
                   !.v.mMirrorSign = Bytes(aBuffer, i3, 4),
                   !.v.mAABBCenter = Bytes(aBuffer, i3 + 4, 12),
                   !.v.mBoundingSphereRadius = Bytes(aBuffer, i3 + 16, 4),
                   !.v.mAABBMin = Bytes(aBuffer, i3 + 20, 12),
                   !.v.mAABBMax = Bytes(aBuffer, i3 + 32, 12),
                   !.v.mGlobalLODCount = U32At(aBuffer, i3 + 44),
                   !.it = i3 + 48]

\* A throwing Material constructor leaves the BinFBX constructor.
MaterialsRead(st, materials) ==
    IF materials.ok THEN [st EXCEPT !.v.mMaterials = materials.v, !.it = materials.it]
    ELSE [ok |-> FALSE, it |-> materials.it]

ReadMaterials(aBuffer, st) ==
    MaterialsRead(st, Materials(aBuffer, st.it + 4, U32At(aBuffer, st.it)))

MaterialMapRead(st, g, map) == [st EXCEPT !.v.mMaterialMaps[g] = map.v, !.it = map.it]

ReadMaterialMap(aBuffer, st, g) ==
    MaterialMapRead(st, g, U32Array(aBuffer, st.it + 4, U32At(aBuffer, st.it)))

AlternateMaterialMapsRead(st, alts) ==
    [st EXCEPT !.v.mAlternateMaterialMaps = alts.v, !.it = alts.it]

ReadAlternateMaterialMaps(aBuffer, st) ==
    AlternateMaterialMapsRead(st,
        AlternateMaterialMaps(aBuffer, st.it + 4, U32At(aBuffer, st.it),
                              Len(st.v.mMaterialMaps[1])))

MeshGroupRead(st, g, group) == [st EXCEPT !.v.mMeshes[g] = group.v, !.it = group.it]

ReadMeshGroup(aBuffer, st, g) ==
    MeshGroupRead(st, g, MeshGroupAt(aBuffer, st.it, st.v.mVertexBuffers,
                                     st.v.mIndexBuffer, st.v.mIndexSize))

ReadTrailer(aBuffer, st) ==
    LET cdf == RawArray(aBuffer, st.it + 12, U32At(aBuffer, st.it + 8), 4)
    IN  [st EXCEPT !.v.mTailReserved0 = U32At(aBuffer, st.it),
                   !.v.mTotalSurfaceArea = Bytes(aBuffer, st.it + 4, 4),
                   !.v.mTriangleAreaCDF = cdf.v,
                   !.it = cdf.it]

\* Everything behind the materials.
ReadMapsAndMeshes(aBuffer, st) ==
    IF ~st.ok THEN st
    ELSE ReadTrailer(aBuffer,
           ReadMeshGroup(aBuffer,
             ReadMeshGroup(aBuffer,
               ReadMaterialMap(aBuffer,
                 ReadAlternateMaterialMaps(aBuffer,
                   ReadMaterialMap(aBuffer, st, 1)), 2), 1), 2))

\* Everything behind the magick of the header.
ReadBody(aBuffer) ==
    ReadMapsAndMeshes(aBuffer,
      ReadMaterials(aBuffer,
        ReadGlobalParams(aBuffer,
          ReadJoints(aBuffer, ReadBuffers(aBuffer)))))

\* A constructor without the magick check (what the check is compared with).
BinFBXCtorUnchecked(aBuffer) == ReadBody(aBuffer)

BinFBXCtor(aBuffer) ==
    IF U32At(aBuffer, 0) # BinFBXMagick THEN [ok |-> FALSE, it |-> 4]
    ELSE ReadBody(aBuffer)

(***************************************************************************)
(* Triangle areas.  Areas are counted in halves: the code stores           *)
(* 0.5f * norm(cross(e0, e1)) and the entries of `out` here are the norms. *)
(***************************************************************************)
\* A test that takes every FLOAT3 attribute for the position.
IsPositionAnyUsage(a) == a.Type = FLOAT3

IsPosition(a) == a.Type = FLOAT3 /\ a.Usage = 0

\* posIndex of the first position attribute (a.Index ? 0 : 1), or -1.
PositionBuffer(attrs) ==
    IF \E n \in 1..Len(attrs) : IsPosition(attrs[n])
    THEN LET n == CHOOSE n \in 1..Len(attrs) :
                     IsPosition(attrs[n]) /\ \A k \in 1..(n - 1) : ~IsPosition(attrs[k])
         IN  IF attrs[n].Index # 0 THEN 0 ELSE 1
    ELSE -1

\* loadPos: three floats at posBuf + v * stride.
LoadPos(posBuf, stride, v) ==
    [c \in 1..3 |-> FloatValue(Bytes(posBuf, v * stride + (c - 1) * 4, 4))]

Sub(a, b) == <<a[1] - b[1], a[2] - b[2], a[3] - b[3]>>
Cross(a, b) == <<a[2] * b[3] - a[3] * b[2], a[3] * b[1] - a[1] * b[3], a[1] * b[2] - a[2] * b[1]>>
Norm(a) == Sqrt(a[1] * a[1] + a[2] * a[2] + a[3] * a[3])

\* The local index of corner j of triangle i.
LocalIndexAt(mesh, i, j) ==
    LEValue(Bytes(mesh.mIndexBuffer, (i * 3 + j) * mesh.mIndexSize, mesh.mIndexSize))

TriangleArea(mesh, posBuf, stride, i) ==
    LET p0 == LoadPos(posBuf, stride, LocalIndexAt(mesh, i, 0))
        p1 == LoadPos(posBuf, stride, LocalIndexAt(mesh, i, 1))
        p2 == LoadPos(posBuf, stride, LocalIndexAt(mesh, i, 2))
    IN  Norm(Cross(Sub(p1, p0), Sub(p2, p0)))

AccumulateTriangleAreas(mesh, out) ==
    LET posIndex == PositionBuffer(mesh.mAttributeInfos)
        stride == GetVertexSizes(mesh)[posIndex + 1]
        posBuf == mesh.mVertexBuffers[posIndex + 1]
    IN  IF posIndex < 0 THEN [ok |-> FALSE, out |-> out]
        ELSE IF stride = 0 THEN [ok |-> FALSE, out |-> out]
        ELSE IF mesh.mTriangleCount > 0 /\ ~ValidIndexSize(mesh.mIndexSize)
             THEN [ok |-> FALSE, out |-> out]
        ELSE [ok |-> TRUE,
              out |-> out \o [i \in 1..mesh.mTriangleCount |->
                                 TriangleArea(mesh, posBuf, stride, i - 1)]]

RECURSIVE AccumulateAll(_, _)
AccumulateAll(meshes, acc) ==
    IF meshes = <<>> THEN acc
    ELSE LET r == AccumulateTriangleAreas(meshes[1], acc.areas)
         IN  AccumulateAll(Tail(meshes), [ok |-> r.ok \/ acc.ok, areas |-> r.out])

RECURSIVE Sum(_, _)
Sum(s, n) == IF n = 0 THEN 0 ELSE s[n] + Sum(s, n - 1)

\* A recomputation that forgets to reset the reserved word.
RecomputeTrailerKeepReserved(obj) ==
    LET acc == AccumulateAll(obj.mMeshes[1] \o obj.mMeshes[2], [ok |-> FALSE, areas |-> <<>>])
        areas == acc.areas
        total == Sum(areas, Len(areas))
    IN  IF ~acc.ok \/ areas = <<>> THEN obj
        ELSE IF total <= 0 THEN obj
        ELSE [obj EXCEPT
                !.mTotalSurfaceArea = FloatBits(total, 2),
                !.mTriangleAreaCDF =
                    [i \in 1..Len(areas) |->
                        IF i = Len(areas) THEN FloatOne ELSE FloatBits(Sum(areas, i), total)]]

RecomputeTrailerFromMeshes(obj) ==
    LET acc == AccumulateAll(obj.mMeshes[1] \o obj.mMeshes[2], [ok |-> FALSE, areas |-> <<>>])
        areas == acc.areas
        total == Sum(areas, Len(areas))
    IN  IF ~acc.ok \/ areas = <<>> THEN obj
        ELSE IF total <= 0 THEN obj
        ELSE [obj EXCEPT
                !.mTotalSurfaceArea = FloatBits(total, 2),
                !.mTriangleAreaCDF =
                    [i \in 1..Len(areas) |->
                        IF i = Len(areas) THEN FloatOne ELSE FloatBits(Sum(areas, i), total)],
                !.mTailReserved0 = 0]

(***************************************************************************)
(* RemoveMesh                                                              *)
(***************************************************************************)
Matches(mesh, aLOD, aIndex) == mesh.mIndex = aIndex /\ mesh.mLOD = aLOD

\* A search that compares the index and not the LOD.
FindMeshByIndex(group, aLOD, aIndex) ==
    IF \E n \in 1..Len(group) : group[n].mIndex = aIndex
    THEN CHOOSE n \in 1..Len(group) :
            group[n].mIndex = aIndex /\ \A k \in 1..(n - 1) : group[k].mIndex # aIndex
    ELSE 0

\* std::find_if: the position (from 1) of the first match, 0 for end().
FindMesh(group, aLOD, aIndex) ==
    IF \E n \in 1..Len(group) : Matches(group[n], aLOD, aIndex)
    THEN CHOOSE n \in 1..Len(group) :
            Matches(group[n], aLOD, aIndex) /\ \A k \in 1..(n - 1) : ~Matches(group[k], aLOD, aIndex)
    ELSE 0

\* An erasure that does not look at the group.
EraseAlternateAnyGroup(alts, aGroup, pos) ==
    IF Len(alts) > pos - 1 THEN EraseAt(alts, pos) ELSE alts

\* The alternate material maps after the erase of RemoveMesh
\* (index = pos - 1 in the code).
EraseAlternate(alts, aGroup, pos) ==
    IF aGroup = 0 /\ Len(alts) > pos - 1 THEN EraseAt(alts, pos) ELSE alts

\* erase() of the material map is defined only for an entry that exists.
RemoveMeshDefined(obj, aGroup, aLOD, aIndex) ==
    LET pos == FindMesh(obj.mMeshes[aGroup + 1], aLOD, aIndex)
    IN  pos = 0 \/ pos <= Len(obj.mMaterialMaps[aGroup + 1])

\* The materials the material maps of the two groups refer to.
MaterialReferences(obj) ==
    {obj.mMaterialMaps[1][n] : n \in 1..Len(obj.mMaterialMaps[1])}
    \cup {obj.mMaterialMaps[2][n] : n \in 1..Len(obj.mMaterialMaps[2])}

\* A removal that also erases the material of the removed mesh when no
\* other mesh refers to it.
RemoveMeshAndUnusedMaterial(obj, aGroup, aLOD, aIndex) ==
    LET g == aGroup + 1
        pos == FindMesh(obj.mMeshes[g], aLOD, aIndex)
    IN  IF pos = 0 THEN obj
        ELSE RecomputeTrailerFromMeshes(
               [obj EXCEPT !.mMeshes[g] = EraseAt(@, pos),
                           !.mMaterialMaps[g] = EraseAt(@, pos),
                           !.mAlternateMaterialMaps = EraseAlternate(@, aGroup, pos),
                           !.mMaterials =
                              IF /\ obj.mMaterialMaps[g][pos] < Len(@)
                                 /\ obj.mMaterialMaps[g][pos] \notin
                                      MaterialReferences(
                                        [obj EXCEPT !.mMaterialMaps[g] = EraseAt(@, pos)])
                              THEN EraseAt(@, obj.mMaterialMaps[g][pos] + 1)
                              ELSE @])

\* A removal that erases the last entry of the material map, whatever the
\* position of the mesh is.
RemoveMeshErasingLastEntry(obj, aGroup, aLOD, aIndex) ==
    LET g == aGroup + 1
        pos == FindMesh(obj.mMeshes[g], aLOD, aIndex)
    IN  IF pos = 0 THEN obj
        ELSE RecomputeTrailerFromMeshes(
               [obj EXCEPT !.mMeshes[g] = EraseAt(@, pos),
                           !.mMaterialMaps[g] = EraseAt(@, Len(@)),
                           !.mAlternateMaterialMaps = EraseAlternate(@, aGroup, pos)])

RemoveMesh(obj, aGroup, aLOD, aIndex) ==
    LET g == aGroup + 1
        pos == FindMesh(obj.mMeshes[g], aLOD, aIndex)
    IN  IF pos = 0 THEN obj
        ELSE RecomputeTrailerFromMeshes(
               [obj EXCEPT !.mMeshes[g] = EraseAt(@, pos),
                           !.mMaterialMaps[g] = EraseAt(@, pos),
                           !.mAlternateMaterialMaps = EraseAlternate(@, aGroup, pos)])

(***************************************************************************)
(* BinFBX::Write: the bytes of the output file.                            *)
(***************************************************************************)
U32ArrayBytes(v) == Flatten([i \in 1..Len(v) |-> U32Bytes(v[i])])

AlternateMapBytes(a) ==
    WriteString(a.name) \o U32Bytes(Len(a.map)) \o U32ArrayBytes(a.map)

MeshGroupBytes(group) ==
    U32Bytes(Len(group)) \o Flatten([i \in 1..Len(group) |-> MeshWrite(group[i])])

BinFBXWrite(obj) ==
    <<46, 0, 0, 0>>
    \o U32Bytes(Len(obj.mVertexBuffers[1]))
    \o U32Bytes(Len(obj.mVertexBuffers[2]))
    \o U32Bytes(Len(obj.mIndexBuffer) \div obj.mIndexSize)
    \o U32Bytes(obj.mIndexSize)
    \o obj.mVertexBuffers[1] \o obj.mVertexBuffers[2] \o obj.mIndexBuffer
    \o U32Bytes(Len(obj.mJoints))
    \o Flatten([i \in 1..Len(obj.mJoints) |-> JointWrite(obj.mJoints[i])])
    \o obj.mReservedInts \o obj.mGlobalScale
    \o U32Bytes(Len(obj.mLODThresholds)) \o Flatten(obj.mLODThresholds)
    \o obj.mMirrorSign \o obj.mAABBCenter \o obj.mBoundingSphereRadius
    \o obj.mAABBMin \o obj.mAABBMax \o U32Bytes(obj.mGlobalLODCount)
    \o U32Bytes(Len(obj.mMaterials))
    \o Flatten([i \in 1..Len(obj.mMaterials) |-> MaterialWrite(obj.mMaterials[i])])
    \o U32Bytes(Len(obj.mMaterialMaps[1])) \o U32ArrayBytes(obj.mMaterialMaps[1])
    \o U32Bytes(Len(obj.mAlternateMaterialMaps))
    \o Flatten([i \in 1..Len(obj.mAlternateMaterialMaps) |->
                   AlternateMapBytes(obj.mAlternateMaterialMaps[i])])
    \o U32Bytes(Len(obj.mMaterialMaps[2])) \o U32ArrayBytes(obj.mMaterialMaps[2])
    \o MeshGroupBytes(obj.mMeshes[1]) \o MeshGroupBytes(obj.mMeshes[2])
    \o U32Bytes(obj.mTailReserved0) \o obj.mTotalSurfaceArea
    \o U32Bytes(Len(obj.mTriangleAreaCDF)) \o Flatten(obj.mTriangleAreaCDF)

(***************************************************************************)
(* Input files.  A file is laid out field by field in the order the        *)
(* constructor reads it; fields the codec does not interpret get filler    *)
(* bytes.                                                                  *)
(***************************************************************************)
Filler(n, seed) == [i \in 1..n |-> (seed + 3 * i) % 256]

JointBytes(n) == WriteString(<<74, 48 + n>>) \o Filler(64, 10 * n) \o <<255, 255, 255, 255>>

\* The payload of a uniform variable on disk, by type tag; a tag outside the
\* enum is followed directly by the next record.
UniformPayloadBytes(type) ==
    CASE type = Float -> FloatBits(1, 2)
      [] type = Range -> FloatBits(0, 1) \o FloatBits(1, 1)
      [] type = Color -> Filler(16, 100)
      [] type = Vector -> Filler(12, 120)
      [] type = TextureMap -> WriteString(<<116, 120>>)
      [] type = Boolean -> U32Bytes(1)
      [] OTHER -> <<>>

UniformBytes(type) == WriteString(<<117, type>>) \o U32Bytes(type) \o UniformPayloadBytes(type)

\* m = [magick, uniforms (type tags)]
MaterialBytes(m) ==
    U32Bytes(m.magick) \o Filler(8, 200) \o WriteString(<<109>>) \o WriteString(<<115, 116>>)
    \o WriteString(<<>>) \o Filler(24, 30) \o U32Bytes(Len(m.uniforms))
    \o Flatten([i \in 1..Len(m.uniforms) |-> UniformBytes(m.uniforms[i])])

\* a = <<Index, Type, Usage>>
MeshBytes(m) ==
    U32Bytes(m.lod) \o U32Bytes(m.vertexCount) \o U32Bytes(m.triangleCount)
    \o U32Bytes(m.offsets[1]) \o U32Bytes(m.offsets[2]) \o U32Bytes(m.indexOffset)
    \o Filler(4, 40) \o Filler(16, 50) \o Filler(24, 60) \o Filler(4, 70)
    \o <<Len(m.attrs)>>
    \o Flatten([i \in 1..Len(m.attrs) |-> <<m.attrs[i][1], m.attrs[i][2], m.attrs[i][3], 0>>])
    \o Filler(4, 80) \o Filler(4, 90) \o <<1>> \o Filler(4, 95)

AlternateBytes(a) == WriteString(a.name) \o Flatten([i \in 1..Len(a.map) |-> U32Bytes(a.map[i])])

FileBytes(c) ==
    U32Bytes(c.magick) \o U32Bytes(Len(c.vb[1])) \o U32Bytes(Len(c.vb[2]))
    \o U32Bytes(Len(c.indices)) \o U32Bytes(c.indexSize)
    \o c.vb[1] \o c.vb[2]
    \o Flatten([i \in 1..Len(c.indices) |-> LEBytes(c.indices[i], c.indexSize)])
    \o U32Bytes(c.joints) \o Flatten([i \in 1..c.joints |-> JointBytes(i)])
    \o Filler(8, 1) \o FloatBits(1, 1)
    \o U32Bytes(c.thresholds) \o Flatten([i \in 1..c.thresholds |-> FloatBits(i, 1)])
    \o Filler(44, 2) \o U32Bytes(1)
    \o U32Bytes(Len(c.materials))
    \o Flatten([i \in 1..Len(c.materials) |-> MaterialBytes(c.materials[i])])
    \o U32Bytes(Len(c.maps[1])) \o U32ArrayBytes(c.maps[1])
    \o U32Bytes(Len(c.alts)) \o Flatten([i \in 1..Len(c.alts) |-> AlternateBytes(c.alts[i])])
    \o U32Bytes(Len(c.maps[2])) \o U32ArrayBytes(c.maps[2])
    \o U32Bytes(Len(c.meshes[1])) \o Flatten([i \in 1..Len(c.meshes[1]) |-> MeshBytes(c.meshes[1][i])])
    \o U32Bytes(Len(c.meshes[2])) \o Flatten([i \in 1..Len(c.meshes[2]) |-> MeshBytes(c.meshes[2][i])])
    \o U32Bytes(c.reserved0) \o c.total \o U32Bytes(Len(c.cdf)) \o Flatten(c.cdf)

(***************************************************************************)
(* Mesh geometry of the inputs.  A kind is the attribute list of a mesh,   *)
(* its vertex block in each shared buffer, and its indices into the block. *)
(***************************************************************************)
PosBytes(p) == FloatBits(p[1], 1) \o FloatBits(p[2], 1) \o FloatBits(p[3], 1)
PosBlock(ps) == Flatten([i \in 1..Len(ps) |-> PosBytes(ps[i])])

\* A position attribute in one buffer and a second FLOAT3 in the other: both
\* blocks hold the positions.
PosAttrs == << <<1, FLOAT3, 0>>, <<0, FLOAT3, 1>> >>
\* No position: a FLOAT3 with the usage of a normal, and texture coordinates.
NoPosAttrs == << <<1, FLOAT3, 1>>, <<0, SHORT2_SNORM, 2>> >>

Corners == << <<0, 0, 0>>, <<2, 0, 0>>, <<0, 2, 0>>, <<2, 2, 0>> >>

KindTri ==
    [attrs |-> PosAttrs, vertexCount |-> 3,
     blocks |-> <<PosBlock(<< <<0, 0, 0>>, <<1, 0, 0>>, <<0, 1, 0>> >>),
                  PosBlock(<< <<0, 0, 0>>, <<1, 0, 0>>, <<0, 1, 0>> >>)>>,
     indices |-> <<0, 1, 2>>]
KindQuad ==
    [attrs |-> PosAttrs, vertexCount |-> 4,
     blocks |-> <<PosBlock(Corners), PosBlock(Corners)>>,
     indices |-> <<0, 1, 2, 2, 1, 3>>]
KindFlat ==
    [attrs |-> PosAttrs, vertexCount |-> 4,
     blocks |-> <<PosBlock(Corners), PosBlock(Corners)>>,
     indices |-> <<3, 1, 3>>]
KindNoPos ==
    [attrs |-> NoPosAttrs, vertexCount |-> 3,
     blocks |-> <<PosBlock(<< <<0, 0, 0>>, <<2, 0, 0>>, <<0, 2, 0>> >>), Filler(12, 170)>>,
     indices |-> <<2, 0, 1>>]

Kinds == <<KindTri, KindNoPos, KindQuad, KindFlat>>

\* The mesh records of a list of <<kind, lod>> whose blocks are laid out one
\* after the other from the given offsets.
RECURSIVE PlaceMeshes(_, _, _, _)
PlaceMeshes(ms, off0, off1, ioff) ==
    IF ms = <<>> THEN <<>>
    ELSE LET k == ms[1][1]
         IN  <<[lod |-> ms[1][2], vertexCount |-> k.vertexCount,
                triangleCount |-> Len(k.indices) \div 3,
                offsets |-> <<off0, off1>>, indexOffset |-> ioff, attrs |-> k.attrs]>>
             \o PlaceMeshes(Tail(ms), off0 + Len(k.blocks[1]), off1 + Len(k.blocks[2]),
                            ioff + Len(k.indices))

UniformCDF(n) == [i \in 1..n |-> FloatBits(i, n)]

\* A well-formed container: joints, materials, alternate maps, the meshes
\* of the two groups (lists of <<kind, lod>>), index width, reserved word.
Container(joints, materials, alts, ms0, ms1, indexSize, reserved0) ==
    LET ms == ms0 \o ms1
        placed == PlaceMeshes(ms, 0, 0, 0)
        indices == Flatten([i \in 1..Len(ms) |-> ms[i][1].indices])
    IN  [magick |-> BinFBXMagick, indexSize |-> indexSize,
         vb |-> <<Flatten([i \in 1..Len(ms) |-> ms[i][1].blocks[1]]),
                  Flatten([i \in 1..Len(ms) |-> ms[i][1].blocks[2]])>>,
         indices |-> indices,
         joints |-> joints, thresholds |-> joints,
         materials |-> materials,
         maps |-> <<[i \in 1..Len(ms0) |-> i - 1], [i \in 1..Len(ms1) |-> 0]>>,
         alts |-> [a \in 1..alts |-> [name |-> <<97, 48 + a>>,
                                      map |-> [i \in 1..Len(ms0) |-> a + i]]],
         meshes |-> <<SubSeq(placed, 1, Len(ms0)), SubSeq(placed, Len(ms0) + 1, Len(ms))>>,
         reserved0 |-> reserved0, total |-> FloatBits(7, 2),
         cdf |-> UniformCDF(Len(indices) \div 3)]

(***************************************************************************)
(* The explored input files, each with the facts about how it was made.    *)
(***************************************************************************)
KnownTags == {Float, Range, Vector, Color, TextureSampler, TextureMap, Boolean, NoPayload}
\* Two tags outside the enum.
UnknownTags == {4, 17}

Facts(family, alts) ==
    [family |-> family, alts |-> alts, truncated |-> FALSE, unknownTag |-> FALSE,
     badMaterial |-> 0, badMagick |-> FALSE, badWidth |-> FALSE,
     mapMismatch |-> FALSE]

Input(c, facts) == [file |-> FileBytes(c), facts |-> facts]

UniformLists == << <<Float, TextureMap>>, <<Color, Boolean, NoPayload>>,
                   <<Range, Vector, TextureSampler>> >>
GoodMaterials(n) == [i \in 1..n |-> [magick |-> MaterialMagick,
                                     uniforms |-> UniformLists[((i - 1) % 3) + 1]]]

\* Every combination of the counts: no or the most joints; no, one or the
\* most materials; every number of alternate maps and of meshes.
ShapeInputs ==
    { Input(Container(j, GoodMaterials(m), a,
                      [i \in 1..n0 |-> <<Kinds[((i - 1) % 4) + 1], 0>>],
                      [i \in 1..n1 |-> <<KindQuad, 0>>], 2, 0),
            Facts("shape", a)) :
        j \in {0, MaxJoints}, m \in {0, 1, MaxMaterials}, a \in 0..MaxAlternateMaps,
        n0 \in 0..MaxMeshes0, n1 \in 0..MaxMeshes1 }

RECURSIVE SeqsUpTo(_, _)
SeqsUpTo(S, n) ==
    IF n = 0 THEN {<<>>}
    ELSE LET shorter == SeqsUpTo(S, n - 1)
         IN  shorter \cup {Append(q, x) : q \in {r \in shorter : Len(r) = n - 1}, x \in S}

\* Every list of mesh kinds in group 0, with the LOD alternating 0, 1, 0, ...
MeshInputs ==
    { Input(Container(0, GoodMaterials(1), 1,
                      [i \in 1..Len(ks) |-> <<Kinds[ks[i]], (i - 1) % 2>>],
                      [i \in 1..n1 |-> <<KindTri, 1>>], 2, 1),
            Facts("mesh", 1)) :
        ks \in SeqsUpTo(1..4, MaxMeshes0), n1 \in {0, 1} }

\* One mesh of one triangle for a list of attributes <<Index, Type>>; both
\* shared buffers are large enough for either buffer to hold every attribute.
AttrUsage(type) == IF type = FLOAT3 THEN 0 ELSE 1
AttrKind(as) ==
    [attrs |-> [i \in 1..Len(as) |-> <<as[i][1], as[i][2], AttrUsage(as[i][2])>>],
     vertexCount |-> 3,
     blocks |-> <<Zeros(36 * Len(as)), Zeros(36 * Len(as))>>,
     indices |-> <<0, 1, 2>>]
AttributeTypes == {FLOAT3, BYTE4_SNORM, BYTE4_UNORM, SHORT2_SNORM, SHORT4_SNORM,
                   SHORT4_UINT, BYTE4_UINT}
AttrLists ==
    {<<>>} \cup {<<a>> : a \in {0, 1} \X AttributeTypes}
    \cup {<<a, b>> : a \in {0, 1} \X {FLOAT3, BYTE4_UINT, SHORT4_UINT},
                     b \in {0, 1} \X {FLOAT3, BYTE4_UINT, SHORT4_UINT}}
AttrInputs ==
    { Input(Container(0, GoodMaterials(0), 0, << <<AttrKind(as), 0>> >>, <<>>, 2, 0),
            Facts("attr", 0)) : as \in AttrLists }

\* One mesh without triangles that has the most attributes the count byte
\* of a mesh record can announce.
MaxAttributeCount == 255
ManyAttrInputs ==
    { Input(Container(0, GoodMaterials(0), 0,
                      << <<[attrs |-> [i \in 1..MaxAttributeCount |-> <<i % 2, BYTE4_UINT, 1>>],
                            vertexCount |-> 0, blocks |-> <<<<>>, <<>>>>,
                            indices |-> <<>>], 0>> >>,
                      << <<KindTri, 0>> >>, 2, 0),
            Facts("attrs", 0)) }

\* One material whose uniform variables carry the listed tags.
TagLists ==
    {<<t>> : t \in KnownTags \cup UnknownTags}
    \cup {<<t, u>> : t \in {4, TextureMap}, u \in KnownTags \cup UnknownTags}
TagInputs ==
    { Input(Container(0, <<[magick |-> MaterialMagick, uniforms |-> ts]>>, 0,
                      << <<KindTri, 0>> >>, <<>>, 2, 0),
            [Facts("tag", 0) EXCEPT
                !.unknownTag = \E i \in 1..Len(ts) : ts[i] \in UnknownTags]) :
        ts \in TagLists }

BaseContainer ==
    Container(1, GoodMaterials(1), 0, << <<KindTri, 0>> >>, << <<KindNoPos, 0>> >>, 2, 0)

\* The first four bytes are another value than 0x2E.
BadMagicks == {0, 45, 47, 302, 11776}
MagickInputs ==
    { Input([BaseContainer EXCEPT !.magick = x], [Facts("magick", 0) EXCEPT !.badMagick = TRUE]) :
        x \in BadMagicks }

\* Material k of n starts with another value than 7 (badMaterial is k).
BadMaterialMagicks == {0, 6, 8}
MaterialInputs ==
    { Input([BaseContainer EXCEPT
                !.materials = [GoodMaterials(nk[1]) EXCEPT ![nk[2]].magick = x]],
            [Facts("material", 0) EXCEPT !.badMaterial = nk[2]]) :
        nk \in {p \in (1..MaxMaterials) \X (1..MaxMaterials) : p[2] <= p[1]},
        x \in BadMaterialMagicks }

\* The index widths the switch of the Mesh constructor handles.
WidthInputs ==
    { Input(Container(0, GoodMaterials(1), 0, << <<KindQuad, 0>>, <<KindFlat, 0>> >>,
                      << <<KindTri, 0>> >>, w, 0),
            Facts("width", 0)) : w \in {1, 2, 4, 8} }

\* One mesh with an index width of one byte whose 258 index slots name
\* every vertex a byte can name (all at the origin).
ByteValues == 256
KindEveryByte ==
    [attrs |-> << <<1, FLOAT3, 0>> >>, vertexCount |-> ByteValues,
     blocks |-> <<Zeros(12 * ByteValues), <<>>>>,
     indices |-> [i \in 1..(ByteValues + 2) |-> (i - 1) % ByteValues]]
EveryByteInputs ==
    { Input(Container(0, GoodMaterials(0), 0, << <<KindEveryByte, 0>> >>,
                      << <<KindTri, 0>> >>, 1, 0),
            Facts("bytes", 0)) }

\* Index widths the switch of the Mesh constructor has no case for.
BadWidths == {0, 3, 16}
BadWidthInputs ==
    { Input(Container(0, GoodMaterials(1), 0, << <<KindQuad, 0>> >>,
                      << <<KindTri, 0>> >>, w, 0),
            [Facts("badwidth", 0) EXCEPT !.badWidth = TRUE]) : w \in BadWidths }

\* Material maps with another number of entries than the mesh group has
\* meshes (one mesh in each group).
MapLengths == {0, 1, 2}
MapMismatchInputs ==
    { Input([BaseContainer EXCEPT
                !.maps = <<[i \in 1..n[1] |-> 0], [i \in 1..n[2] |-> 0]>>],
            [Facts("maps", 0) EXCEPT !.mapMismatch = TRUE]) :
        n \in (MapLengths \X MapLengths) \ {<<1, 1>>} }

\* The length of the CDF of the trailer, whatever the meshes are.
CDFInputs ==
    { Input([BaseContainer EXCEPT !.cdf = UniformCDF(n)], Facts("cdf", 0)) :
        n \in 0..MaxCDFLength }

\* Three mesh records in group 0 and two in group 1, the LOD values of
\* group 0 coming in each order of two values, also one that returns to a
\* value it has left.
LODOrders == {<<0, 0, 0>>, <<0, 0, 1>>, <<0, 1, 0>>, <<0, 1, 1>>, <<1, 0, 1>>, <<1, 1, 0>>}
LODOrderInputs ==
    { Input(Container(0, GoodMaterials(1), 1,
                      [i \in 1..3 |-> <<Kinds[i], ls[i]>>],
                      << <<KindTri, 0>>, <<KindFlat, 0>> >>, 2, 1),
            Facts("lod", 1)) : ls \in LODOrders }

\* Every proper prefix of one well-formed file.
TruncatedInputs ==
    LET file == FileBytes(BaseContainer)
    IN  { [file |-> SubSeq(file, 1, n),
           facts |-> [Facts("truncated", 0) EXCEPT !.truncated = TRUE]] :
          n \in 0..(Len(file) - 1) }

Inputs ==
    ShapeInputs \cup MeshInputs \cup AttrInputs \cup TagInputs \cup MagickInputs
    \cup MaterialInputs \cup WidthInputs \cup BadWidthInputs \cup MapMismatchInputs
    \cup CDFInputs \cup LODOrderInputs \cup ManyAttrInputs \cup EveryByteInputs
    \cup TruncatedInputs

\* A file made as the format prescribes, whole, with tags of the enum only.
WellFormed(facts) ==
    /\ ~facts.truncated /\ ~facts.unknownTag /\ facts.badMaterial = 0
    /\ ~facts.badMagick /\ ~facts.badWidth /\ ~facts.mapMismatch

(***************************************************************************)
(* The run of the tool on one input file.                                  *)
(*   buffer      the bytes of the input file (MeshTool::operator())        *)
(*   given       how the input file was made                               *)
(*   pc          "start", "constructed" (binfbx exists), "failed" (an      *)
(*               exception reached main), "crashed", "done"                *)
(*   binfbx      <<>> or <<the BinFBX object>>                             *)
(*   readEnd     the offset behind the last byte the constructor read      *)
(*   ub          undefined behaviour has occurred                          *)
(*   output      <<>> or <<the bytes of the output file>>                  *)
(*   dumped      Dump has printed                                          *)
(*   removes     the number of RemoveMesh calls made                       *)
(*   lastRemove  <<>> or <<the last RemoveMesh call: its arguments, the    *)
(*               position found (0: not found), the object before>>        *)
(* and of main() around it (used by ToolSpec only):                        *)
(*   argv        the command line behind argv[0], each argument a sequence *)
(*               of characters                                             *)
(*   mInputFile, mOutputFile   the members ProcessArgs sets (<<>>: empty)  *)
(*   disk        the bytes of the file at ModelPath                        *)
(*   retval      <<>> or <<the value main returned>>                       *)
(***************************************************************************)
VARIABLES buffer, given, pc, binfbx, readEnd, ub, output, dumped, removes, lastRemove,
          argv, mInputFile, mOutputFile, disk, retval

toolVars == <<argv, mInputFile, mOutputFile, disk, retval>>

vars == <<buffer, given, pc, binfbx, readEnd, ub, output, dumped, removes, lastRemove,
          toolVars>>

Init ==
    /\ \E inp \in Inputs : buffer = inp.file /\ given = inp.facts
    /\ pc = "start"
    /\ binfbx = <<>>
    /\ readEnd = 0
    /\ ub = FALSE
    /\ output = <<>>
    /\ dumped = FALSE
    /\ removes = 0
    /\ lastRemove = <<>>
    /\ argv = <<>>
    /\ mInputFile = <<>>
    /\ mOutputFile = <<>>
    /\ disk = <<>>
    /\ retval = <<>>

AllMeshes(obj) == obj.mMeshes[1] \o obj.mMeshes[2]

\* The constructor read behind the end of the file, or a Mesh constructor
\* read outside the shared buffers.
ReadOutOfBounds(r) ==
    \/ r.it > Len(buffer)
    \/ /\ r.ok
       /\ \E n \in 1..Len(AllMeshes(r.v)) :
             ~LocalizationInBounds(AllMeshes(r.v)[n], r.v.mVertexBuffers, r.v.mIndexBuffer)

\* The outcome r of the constructor: the object exists, or the exception
\* leaves operator() and main returns -1; a read out of bounds may also end
\* the run.
Constructed(r) ==
    /\ readEnd' = r.it
    /\ ub' = ReadOutOfBounds(r)
    /\ \/ /\ pc' = IF r.ok THEN "constructed" ELSE "failed"
          /\ binfbx' = IF r.ok THEN <<r.v>> ELSE <<>>
       \/ /\ ReadOutOfBounds(r)
          /\ pc' = "crashed"
          /\ binfbx' = <<>>

\* BinFBX binfbx{buffer};
Construct ==
    /\ pc = "start"
    /\ Constructed(BinFBXCtor(buffer))
    /\ UNCHANGED <<buffer, given, output, dumped, removes, lastRemove, toolVars>>

RemoveGroups == {0, 1}
RemoveLODs == {0, 1}
RemoveIndexes == {0, 1}

\* binfbx.RemoveMesh(aGroup, aLOD, aIndex) on an object built without
\* undefined behaviour.
CallRemoveMesh ==
    /\ pc = "constructed"
    /\ ~ub
    /\ removes < MaxRemoves
    /\ \E aGroup \in RemoveGroups, aLOD \in RemoveLODs, aIndex \in RemoveIndexes :
          /\ lastRemove' = <<[aGroup |-> aGroup, aLOD |-> aLOD, aIndex |-> aIndex,
                              pos |-> FindMesh(binfbx[1].mMeshes[aGroup + 1], aLOD, aIndex),
                              pre |-> binfbx[1]]>>
          /\ IF RemoveMeshDefined(binfbx[1], aGroup, aLOD, aIndex)
             THEN /\ binfbx' = <<RemoveMesh(binfbx[1], aGroup, aLOD, aIndex)>>
                  /\ UNCHANGED <<pc, ub>>
             ELSE /\ ub' = TRUE
                  /\ pc' = "crashed"
                  /\ binfbx' = <<>>
    /\ removes' = removes + 1
    /\ UNCHANGED <<buffer, given, readEnd, output, dumped, toolVars>>

\* binfbx.Write(mOutputFile); return 0.  The division by an index width of
\* zero ends the run.
Write ==
    /\ pc = "constructed"
    /\ IF binfbx[1].mIndexSize = 0
       THEN /\ pc' = "crashed"
            /\ ub' = TRUE
            /\ output' = <<<<>>>>
       ELSE /\ pc' = "done"
            /\ ub' = ub
            /\ output' = <<BinFBXWrite(binfbx[1])>>
    /\ UNCHANGED <<buffer, given, binfbx, readEnd, dumped, removes, lastRemove, toolVars>>

\* binfbx.Dump(); return 0.
Dump ==
    /\ pc = "constructed"
    /\ pc' = "done"
    /\ dumped' = TRUE
    /\ UNCHANGED <<buffer, given, binfbx, readEnd, ub, output, removes, lastRemove,
                   toolVars>>

Next == Construct \/ CallRemoveMesh \/ Write \/ Dump

Spec == Init /\ [][Next]_vars

(***************************************************************************)
(* The tool: main() and MeshTool::operator() around the object.            *)
(* pc goes "main", "args", "open", "start", "constructed", "done" and ends *)
(* with "exited" (main returned) or "crashed".                             *)
(***************************************************************************)
ToolName == <<"b", "i", "n", "f", "b", "x">>
OtherName == <<"s", "k", "l">>

\* argv[i][k], 0-based k; "" is the terminating NUL.
CharAt(arg, k) == IF k < Len(arg) THEN arg[k + 1] ELSE ""

\* &argv[i][k] as a string.
StringFrom(arg, k) == SubSeq(arg, k + 1, Len(arg))

\* i++; member = argv[i];  argv[argc] is a null pointer.
TakeNext(args, i, st, member) ==
    IF i + 1 > Len(args) THEN [st EXCEPT !.null = TRUE]
    ELSE IF member = "in" THEN [st EXCEPT !.mInputFile = args[i + 1]]
    ELSE [st EXCEPT !.mOutputFile = args[i + 1]]

\* Which member the argument args[i] selects: "in", "out", "none" (an option
\* no branch handles) or "positional".
Selects(arg) ==
    IF CharAt(arg, 0) = "-"
    THEN IF CharAt(arg, 1) = "-"
         THEN IF StringFrom(arg, 2) = <<"i", "n">> THEN "in"
              ELSE IF StringFrom(arg, 2) = <<"o", "u", "t">> THEN "out"
              ELSE "none"
         ELSE IF CharAt(arg, 1) = "i" THEN "in"
              ELSE IF CharAt(arg, 1) = "o" THEN "out"
              ELSE "none"
    ELSE "positional"

\* The loop of ProcessArgs from argument i on (args[1] is argv[1]).
RECURSIVE ParseArgs(_, _, _)
ParseArgs(args, i, st) ==
    IF i > Len(args) \/ st.null THEN st
    ELSE IF Selects(args[i]) = "positional"
         THEN ParseArgs(args, i + 1, [st EXCEPT !.mInputFile = args[i]])
    ELSE IF Selects(args[i]) = "none"
         THEN ParseArgs(args, i + 1, st)
    ELSE ParseArgs(args, i + 2, TakeNext(args, i, st, Selects(args[i])))

\* The paths of the explored file system: the model file exists, the
\* missing one does not, and nothing can be written at the locked path.
ModelPath == <<"m">>
MissingPath == <<"x">>
OutPath == <<"w">>
LockedPath == <<"l">>
Readable(path) == path = ModelPath
Writable(path) == path # LockedPath /\ path # <<>>

OptIn == <<"-", "-", "i", "n">>
OptOut == <<"-", "-", "o", "u", "t">>
ShortIn == <<"-", "i">>
ShortOut == <<"-", "o">>
OptDump == <<"-", "-", "d", "u", "m", "p">>
OptRemove == <<"-", "-", "r", "e", "m", "o", "v", "e">>

\* The explored command lines: an optional list of --remove triples, the
\* input in its three forms (or missing, or cut short), another triple, the
\* output, --dump; and two command lines that do not name the tool.
MaxRemoveOptions == 2
RemoveOption(g, l, i) == <<OptRemove, <<g>>, <<l>>, <<i>>>>
RemoveOptionLists ==
    UNION { {Flatten(q) : q \in [1..n -> {RemoveOption("0", "0", "0"),
                                          RemoveOption("1", "0", "0")}]} :
            n \in 0..MaxRemoveOptions }
InputForms == {<<>>, <<ModelPath>>, <<ShortIn, ModelPath>>, <<OptIn, ModelPath>>,
               <<MissingPath>>, <<ShortIn>>}
OutputForms == {<<>>, <<ShortOut, OutPath>>, <<OptOut, OutPath>>, <<ShortOut, LockedPath>>}
DumpForms == {<<>>, <<OptDump>>}
CommandLines ==
    { <<ToolName>> \o r \o i \o t \o o \o d :
        r \in RemoveOptionLists, i \in InputForms,
        t \in {<<>>, RemoveOption("0", "0", "0")}, o \in OutputForms, d \in DumpForms }
    \cup {<<>>, <<OtherName, ModelPath>>}

\* The explored contents of the model file.
ToolInputs ==
    { Input(BaseContainer, Facts("tool", 0)),
      Input(Container(1, GoodMaterials(2), 1, << <<KindTri, 0>>, <<KindQuad, 0>> >>,
                      <<>>, 2, 1), Facts("tool", 1)),
      Input([BaseContainer EXCEPT !.magick = 47],
            [Facts("tool", 0) EXCEPT !.badMagick = TRUE]),
      Input([BaseContainer EXCEPT !.materials = [GoodMaterials(1) EXCEPT ![1].magick = 8]],
            [Facts("tool", 0) EXCEPT !.badMaterial = 1]) }

ToolInit ==
    /\ argv \in CommandLines
    /\ \E inp \in ToolInputs : disk = inp.file /\ given = inp.facts
    /\ buffer = <<>>
    /\ pc = "main"
    /\ binfbx = <<>>
    /\ readEnd = 0
    /\ ub = FALSE
    /\ output = <<>>
    /\ dumped = FALSE
    /\ removes = 0
    /\ lastRemove = <<>>
    /\ mInputFile = <<>>
    /\ mOutputFile = <<>>
    /\ retval = <<>>

\* main: the tool named by argv[1] runs, or the usage is printed and main
\* returns retval = 0.
Main ==
    /\ pc = "main"
    /\ IF Len(argv) >= 1 /\ argv[1] = ToolName
       THEN pc' = "args" /\ retval' = retval
       ELSE pc' = "exited" /\ retval' = <<0>>
    /\ UNCHANGED <<buffer, given, binfbx, readEnd, ub, output, dumped, removes, lastRemove,
                   argv, mInputFile, mOutputFile, disk>>

\* ProcessArgs: a std::runtime_error for a wrong tool name or an empty
\* mInputFile; the assignment of the null pointer argv[argc] to a
\* std::string is undefined (the run crashes or an exception is thrown).
Parsed(st) ==
    /\ mInputFile' = st.mInputFile
    /\ mOutputFile' = st.mOutputFile
    /\ IF st.null
       THEN ub' = TRUE /\ pc' \in {"crashed", "failed"}
       ELSE /\ ub' = ub
            /\ pc' = IF st.mInputFile = <<>> THEN "failed" ELSE "open"

ProcessArgs ==
    /\ pc = "args"
    /\ IF Len(argv) < 1 \/ argv[1] # ToolName
       THEN pc' = "failed" /\ UNCHANGED <<mInputFile, mOutputFile, ub>>
       ELSE Parsed(ParseArgs(argv, 2, [mInputFile |-> <<>>, mOutputFile |-> <<>>,
                                       null |-> FALSE]))
    /\ UNCHANGED <<buffer, given, binfbx, readEnd, output, dumped, removes, lastRemove,
                   argv, disk, retval>>

\* file.open with failbit exceptions, then the whole file is read.
OpenInput ==
    /\ pc = "open"
    /\ IF Readable(mInputFile)
       THEN pc' = "start" /\ buffer' = disk
       ELSE pc' = "failed" /\ buffer' = buffer
    /\ UNCHANGED <<given, binfbx, readEnd, ub, output, dumped, removes, lastRemove, toolVars>>

\* if(!mOutputFile.empty()) binfbx.Write(mOutputFile); out.open throws when
\* the file cannot be created.
ToolWrite ==
    /\ mOutputFile # <<>>
    /\ IF Writable(mOutputFile)
       THEN Write
       ELSE /\ pc = "constructed"
            /\ pc' = "failed"
            /\ UNCHANGED <<buffer, given, binfbx, readEnd, ub, output, dumped, removes,
                           lastRemove, toolVars>>

\* else binfbx.Dump();
ToolDump ==
    /\ mOutputFile = <<>>
    /\ Dump

\* return 0 from operator(), return retval from main.
MainReturn ==
    /\ pc = "done"
    /\ pc' = "exited"
    /\ retval' = <<0>>
    /\ UNCHANGED <<buffer, given, binfbx, readEnd, ub, output, dumped, removes, lastRemove,
                   argv, mInputFile, mOutputFile, disk>>

\* A handler that returns retval, which is still 0.
MainCatchReturnsRetval ==
    /\ pc = "failed"
    /\ pc' = "exited"
    /\ retval' = <<0>>
    /\ UNCHANGED <<buffer, given, binfbx, readEnd, ub, output, dumped, removes, lastRemove,
                   argv, mInputFile, mOutputFile, disk>>

\* catch (std::runtime_error&) and catch (...): the message, then return -1.
MainCatch ==
    /\ pc = "failed"
    /\ pc' = "exited"
    /\ retval' = <<-1>>
    /\ UNCHANGED <<buffer, given, binfbx, readEnd, ub, output, dumped, removes, lastRemove,
                   argv, mInputFile, mOutputFile, disk>>

ToolNext ==
    Main \/ ProcessArgs \/ OpenInput \/ Construct \/ ToolWrite \/ ToolDump
    \/ MainReturn \/ MainCatch

ToolSpec == ToolInit /\ [][ToolNext]_vars

(***************************************************************************)
(* Properties.                                                             *)
(***************************************************************************)
\* The last RemoveMesh call, when the object outlived it.
Removed == lastRemove # <<>> /\ binfbx # <<>>

\* C1: round-trip identity.  For every valid input file, the constructor
\* followed by Write, with no RemoveMesh in between, writes an output that
\* is byte for byte the input.
RoundTripIdentity ==
    (pc = "done" /\ output # <<>> /\ removes = 0 /\ WellFormed(given))
        => output[1] = buffer

\* C26: round trip without alternate maps.  For every well-formed file with
\* no alternate material map (tags of the enum only, index width 1, 2, 4 or
\* 8, nothing behind the CDF), the constructor followed by Write, with no
\* RemoveMesh in between, writes an output that is byte for byte the input.
RoundTripWithoutAlternates ==
    (pc = "done" /\ output # <<>> /\ removes = 0 /\ WellFormed(given) /\ given.alts = 0)
        => output[1] = buffer

\* A file without alternate material maps, with a joint, a material and a
\* mesh in each group, written as it was read.
RoundTripWithoutAlternatesReached ==
    /\ pc = "done" /\ output # <<>> /\ removes = 0 /\ WellFormed(given) /\ given.alts = 0
    /\ binfbx[1].mJoints # <<>> /\ binfbx[1].mMaterials # <<>>
    /\ binfbx[1].mMeshes[1] # <<>> /\ binfbx[1].mMeshes[2] # <<>>
    /\ binfbx[1].mAlternateMaterialMaps = <<>>
    /\ binfbx[1].mTriangleAreaCDF # <<>>
    /\ output[1] = buffer

\* A written file that is longer than its input by the four bytes Write
\* adds to each alternate material map.
RoundTripBroken ==
    /\ pc = "done" /\ output # <<>> /\ removes = 0 /\ WellFormed(given)
    /\ given.alts > 0
    /\ Len(output[1]) = Len(buffer) + 4 * given.alts

\* C2: RemoveMesh consistency.  Removing a mesh found at position p of
\* group 0 makes mMeshes[0] one shorter, erases entry p of mMaterialMaps[0]
\* and of the vector of every alternate material map while their number
\* stays, and leaves mMeshes[1] and mMaterialMaps[1] as they were.
RemoveMeshConsistency ==
    (Removed /\ lastRemove[1].aGroup = 0 /\ lastRemove[1].pos > 0) =>
        LET pre == lastRemove[1].pre
            post == binfbx[1]
            p == lastRemove[1].pos
        IN  /\ Len(post.mMeshes[1]) = Len(pre.mMeshes[1]) - 1
            /\ post.mMaterialMaps[1] = EraseAt(pre.mMaterialMaps[1], p)
            /\ Len(post.mAlternateMaterialMaps) = Len(pre.mAlternateMaterialMaps)
            /\ \A a \in 1..Len(pre.mAlternateMaterialMaps) :
                  post.mAlternateMaterialMaps[a].map
                    = EraseAt(pre.mAlternateMaterialMaps[a].map, p)
            /\ post.mMeshes[2] = pre.mMeshes[2]
            /\ post.mMaterialMaps[2] = pre.mMaterialMaps[2]

\* A removal from group 0 after which a whole alternate material map is gone.
RemoveMeshLosesAlternateMap ==
    /\ Removed /\ lastRemove[1].aGroup = 0 /\ lastRemove[1].pos > 0
    /\ Len(binfbx[1].mAlternateMaterialMaps)
         = Len(lastRemove[1].pre.mAlternateMaterialMaps) - 1

\* No mesh of the group has the (LOD, index) pair of the last call.
NoSuchMesh(call) ==
    \A n \in 1..Len(call.pre.mMeshes[call.aGroup + 1]) :
        \/ call.pre.mMeshes[call.aGroup + 1][n].mLOD # call.aLOD
        \/ call.pre.mMeshes[call.aGroup + 1][n].mIndex # call.aIndex

\* C3: not-found is a no-op.  RemoveMesh with a (LOD, index) pair that no
\* mesh of the group has returns normally and leaves the mesh groups, the
\* material maps, the alternate material maps and the trailer as they were
\* (the run goes on, and only a later Write can end it).
RemoveMeshNotFoundIsNoOp ==
    (lastRemove # <<>> /\ NoSuchMesh(lastRemove[1])) =>
        /\ pc \in {"constructed", "done"} \/ (pc = "crashed" /\ output # <<>>)
        /\ binfbx = <<lastRemove[1].pre>>

\* A call that found nothing in a group that holds meshes, the trailer
\* being one a recomputation would have changed.
RemoveMeshNotFoundReached ==
    /\ lastRemove # <<>> /\ NoSuchMesh(lastRemove[1])
    /\ pc = "constructed"
    /\ Len(lastRemove[1].pre.mMeshes[lastRemove[1].aGroup + 1]) > 0
    /\ binfbx[1].mTailReserved0 = 1

RECURSIVE TotalTriangles(_)
TotalTriangles(meshes) ==
    IF meshes = <<>> THEN 0 ELSE meshes[1].mTriangleCount + TotalTriangles(Tail(meshes))

\* C4: CDF invariants after recompute.  After RecomputeTrailerFromMeshes
\* has run on an object with at least one mesh, the CDF is non-decreasing,
\* its values lie in [0, 1], its last value is 1.0 and its length is the sum
\* of the triangle counts of all meshes of both groups.
CDFInvariantsAfterRecompute ==
    (Removed /\ lastRemove[1].pos > 0 /\ AllMeshes(binfbx[1]) # <<>>) =>
        LET cdf == binfbx[1].mTriangleAreaCDF
        IN  /\ Len(cdf) = TotalTriangles(AllMeshes(binfbx[1]))
            /\ \A i \in 1..Len(cdf) : FloatNonNegative(cdf[i]) /\ FloatLeq(cdf[i], FloatOne)
            /\ \A i \in 1..(Len(cdf) - 1) : FloatLeq(cdf[i], cdf[i + 1])
            /\ cdf # <<>> => cdf[Len(cdf)] = FloatOne

\* A recomputation that left a CDF of another length than the triangles
\* of the meshes.
CDFLengthDiffers ==
    /\ Removed /\ lastRemove[1].pos > 0 /\ AllMeshes(binfbx[1]) # <<>>
    /\ Len(binfbx[1].mTriangleAreaCDF) # TotalTriangles(AllMeshes(binfbx[1]))

\* The values the triangleCount * 3 index slots of a mesh hold in the shared
\* index buffer.
SharedIndexes(mesh, aIndexBuffer) ==
    { SharedIndex(aIndexBuffer, mesh.mIndexSize, mesh.mIndexBufferOffset, s) :
        s \in 0..(mesh.mTriangleCount * 3 - 1) }

DedupCorrectFor(mesh, aIndexBuffer) ==
    LET k == Cardinality(SharedIndexes(mesh, aIndexBuffer))
        stride == GetVertexSizes(mesh)
    IN  /\ Len(mesh.mVertexBuffers[1]) = k * stride[1]
        /\ Len(mesh.mVertexBuffers[2]) = k * stride[2]
        /\ Len(mesh.mIndexBuffer) = mesh.mTriangleCount * 3 * mesh.mIndexSize
        /\ \A i \in 0..(mesh.mTriangleCount - 1) : \A j \in 0..2 :
              LocalIndexAt(mesh, i, j) < k

\* C5: dedup correctness.  A mesh whose triangleCount * 3 shared indices
\* take k distinct values is built with k * stride0 bytes in local vertex
\* buffer 0 and k * stride1 bytes in local vertex buffer 1, and each of the
\* triangleCount * 3 local indices is less than k (index widths 1, 2, 4, 8,
\* reads inside the shared buffers).
DedupCorrect ==
    (binfbx # <<>> /\ ~ub) =>
        \A n \in 1..Len(AllMeshes(binfbx[1])) :
            ValidIndexSize(AllMeshes(binfbx[1])[n].mIndexSize) =>
                DedupCorrectFor(AllMeshes(binfbx[1])[n], binfbx[1].mIndexBuffer)

\* A mesh built from six index slots that hold four distinct values.
DedupReached ==
    /\ binfbx # <<>> /\ ~ub
    /\ \E n \in 1..Len(AllMeshes(binfbx[1])) :
          LET mesh == AllMeshes(binfbx[1])[n]
          IN  /\ mesh.mTriangleCount = 2
              /\ Cardinality(SharedIndexes(mesh, binfbx[1].mIndexBuffer)) = 4
              /\ Len(mesh.mVertexBuffers[1]) = 48

\* The byte size of a format in the stride table.
FormatSize(type) ==
    CASE type = FLOAT3 -> 12
      [] type \in {BYTE4_SNORM, BYTE4_UNORM, BYTE4_UINT, SHORT2_SNORM} -> 4
      [] type \in {SHORT4_SNORM, SHORT4_UINT} -> 8
      [] OTHER -> 0

\* The sum of the format sizes of the attributes whose bufferIndex is b.
RECURSIVE StrideOfBuffer(_, _)
StrideOfBuffer(attrs, b) ==
    IF attrs = <<>> THEN 0
    ELSE IF Len(attrs) = 1
    THEN (IF attrs[1].Index = b THEN FormatSize(attrs[1].Type) ELSE 0)
    ELSE StrideOfBuffer(SubSeq(attrs, 1, Len(attrs) \div 2), b)
         + StrideOfBuffer(SubSeq(attrs, Len(attrs) \div 2 + 1, Len(attrs)), b)

\* C6: stride table.  GetVertexSizes returns (stride0, stride1) where
\* stride_b is the sum of the format sizes of the attributes whose
\* bufferIndex is b; for [FLOAT3 in buffer 1, SHORT4_UINT in buffer 0] that
\* is (8, 12).
StrideTable ==
    (binfbx # <<>> /\ WellFormed(given)) =>
        \A n \in 1..Len(AllMeshes(binfbx[1])) :
            GetVertexSizes(AllMeshes(binfbx[1])[n])
              = <<StrideOfBuffer(AllMeshes(binfbx[1])[n].mAttributeInfos, 0),
                  StrideOfBuffer(AllMeshes(binfbx[1])[n].mAttributeInfos, 1)>>

\* The mesh with the attributes [FLOAT3 in buffer 1, SHORT4_UINT in buffer 0],
\* for which GetVertexSizes returns (12, 8).
StrideTableSwapped ==
    /\ binfbx # <<>> /\ WellFormed(given)
    /\ \E n \in 1..Len(AllMeshes(binfbx[1])) :
          LET mesh == AllMeshes(binfbx[1])[n]
          IN  /\ Len(mesh.mAttributeInfos) = 2
              /\ mesh.mAttributeInfos[1].Index = 1 /\ mesh.mAttributeInfos[1].Type = FLOAT3
              /\ mesh.mAttributeInfos[2].Index = 0 /\ mesh.mAttributeInfos[2].Type = SHORT4_UINT
              /\ GetVertexSizes(mesh) = <<12, 8>>

\* C7: bounds safety.  Decoding a proper prefix of a valid file ends in a
\* decode error, without a read at or behind the end of the input and
\* without a read outside the shared buffers.
BoundsSafety ==
    (given.truncated /\ pc # "start") =>
        /\ pc = "failed"
        /\ readEnd <= Len(buffer)
        /\ ~ub

\* A proper prefix from which an object was built by reading behind its end.
TruncatedAccepted ==
    given.truncated /\ pc = "constructed" /\ readEnd > Len(buffer) /\ ub

\* The uniform variables of all materials of an object.
AllUniformVariables(obj) ==
    Flatten([i \in 1..Len(obj.mMaterials) |-> obj.mMaterials[i].mUniformVariables])

\* C8: an unrecognized uniform tag is an error.  A file with a uniform
\* variable whose type tag is none of the eight tags of the enum fails to
\* decode.
UnknownTagIsError ==
    (given.unknownTag /\ pc # "start") => pc = "failed"

\* An object holding a variable with a tag outside the enum and no payload,
\* written back as the file it was read from.
UnknownTagAccepted ==
    /\ given.unknownTag /\ pc = "done" /\ ~ub
    /\ \E n \in 1..Len(AllUniformVariables(binfbx[1])) :
          /\ AllUniformVariables(binfbx[1])[n].mUniformType \notin KnownTags
          /\ AllUniformVariables(binfbx[1])[n].mData = <<>>
    /\ output = <<buffer>>

\* The input starts with four bytes that are not 2E 00 00 00.
BadHeaderMagick == Len(buffer) >= 4 /\ SubSeq(buffer, 1, 4) # <<BinFBXMagick, 0, 0, 0>>

\* C9: the header magic check is all-or-nothing.  A file whose first four
\* bytes are not the value 0x2E makes the constructor throw with nothing
\* but those bytes read; no object exists and neither Write nor Dump runs.
HeaderMagicAllOrNothing ==
    (BadHeaderMagick /\ pc # "start") =>
        /\ pc = "failed"
        /\ readEnd = 4
        /\ binfbx = <<>>
        /\ output = <<>>
        /\ ~dumped

\* A run that ended with the exception for a bad header.
HeaderMagicRejected ==
    BadHeaderMagick /\ given.badMagick /\ pc = "failed" /\ readEnd = 4

\* C10: material magic check.  If any material record of the list starts
\* with another value than 7, the constructor throws and no object exists,
\* whichever record of the list it is.
MaterialMagicCheck ==
    (given.badMaterial > 0 /\ pc # "start") =>
        /\ pc = "failed"
        /\ binfbx = <<>>
        /\ output = <<>>

\* A run that ended with the exception for the second material of the list.
MaterialMagicRejected ==
    given.badMaterial = 2 /\ pc = "failed" /\ readEnd > 0
\* The local index buffers of all meshes of an object hold zero bytes only.
LocalIndexesAllZero(obj) ==
    \A n \in 1..Len(AllMeshes(obj)) :
        \A b \in 1..Len(AllMeshes(obj)[n].mIndexBuffer) :
            AllMeshes(obj)[n].mIndexBuffer[b] = 0

\* C11: an invalid index width is fatal.  A file whose header holds an index
\* byte-width other than 1, 2, 4 and 8 fails to decode: no object is built
\* from it and Write is never reached.
InvalidIndexWidthIsFatal ==
    (given.badWidth /\ pc # "start") => (pc = "failed" /\ binfbx = <<>> /\ output = <<>>)

\* A file with index width 3 or 16 decoded without a read out of bounds into
\* an object whose local indices are all zero, and written back.
InvalidIndexWidthAccepted ==
    /\ given.badWidth /\ pc = "done" /\ ~ub
    /\ binfbx[1].mIndexSize \in BadWidths
    /\ AllMeshes(binfbx[1]) # <<>> /\ LocalIndexesAllZero(binfbx[1])
    /\ output = <<buffer>>

\* Each material map is as long as its mesh group.
MapsMatchMeshes(obj) ==
    \A g \in 1..2 : Len(obj.mMaterialMaps[g]) = Len(obj.mMeshes[g])

\* C12: material-map length invariant.  Every object a successful decode
\* built, and every object a sequence of RemoveMesh calls made of it, has
\* material maps as long as their mesh groups; a file whose material-map
\* count differs from the mesh count of the group gives no object.
MaterialMapLengthInvariant ==
    (binfbx # <<>> /\ ~ub) => MapsMatchMeshes(binfbx[1])

\* The part of C12 that the code keeps: an object decoded from a file whose
\* counts agree has matching lengths after every sequence of RemoveMesh calls.
MaterialMapLengthKept ==
    (binfbx # <<>> /\ ~ub /\ WellFormed(given)) => MapsMatchMeshes(binfbx[1])

\* An object decoded, with every read in bounds, from a file whose
\* material-map count differs from the mesh count.
MaterialMapLengthDiffers ==
    /\ given.mapMismatch /\ pc = "constructed" /\ ~ub /\ removes = 0
    /\ ~MapsMatchMeshes(binfbx[1])

\* The vector of every alternate material map is as long as material map 0.
AlternatesMatchMap(obj) ==
    \A a \in 1..Len(obj.mAlternateMaterialMaps) :
        Len(obj.mAlternateMaterialMaps[a].map) = Len(obj.mMaterialMaps[1])

\* C13: alternate-map length invariant.  In every object a successful
\* decode built, and after every sequence of RemoveMesh calls on either
\* group, the vector of each alternate material map is as long as
\* mMaterialMaps[0].
AlternateMapLengthInvariant ==
    (binfbx # <<>> /\ ~ub) => AlternatesMatchMap(binfbx[1])

\* A removal from group 0 of a well-formed object that left an alternate
\* material map longer than mMaterialMaps[0].
AlternateMapLengthDiffers ==
    /\ Removed /\ ~ub /\ WellFormed(given)
    /\ lastRemove[1].aGroup = 0 /\ lastRemove[1].pos > 0
    /\ AlternatesMatchMap(lastRemove[1].pre)
    /\ \E a \in 1..Len(binfbx[1].mAlternateMaterialMaps) :
          Len(binfbx[1].mAlternateMaterialMaps[a].map) = Len(binfbx[1].mMaterialMaps[1]) + 1

\* A CDF that is empty, or non-decreasing with 1.0 as its last element.
CDFShape(cdf) ==
    /\ \A i \in 1..(Len(cdf) - 1) : FloatLeq(cdf[i], cdf[i + 1])
    /\ cdf # <<>> => cdf[Len(cdf)] = FloatOne

\* The trailer of the object fits its meshes.
TrailerFits(obj) ==
    /\ Len(obj.mTriangleAreaCDF) = TotalTriangles(AllMeshes(obj))
    /\ CDFShape(obj.mTriangleAreaCDF)

\* The file was written with one CDF entry per triangle of its meshes.
CDFMatchesAtDecode == WellFormed(given) /\ given.family # "cdf"

\* C14: trailer invariant over all states.  From a decoded object whose CDF
\* has one entry per triangle, every sequence of RemoveMesh calls, also one
\* that removes every mesh of both groups, leaves a CDF with one entry per
\* triangle of the surviving meshes that is non-decreasing and ends with
\* 1.0 when it is not empty.
TrailerInvariant ==
    (binfbx # <<>> /\ ~ub /\ CDFMatchesAtDecode) => TrailerFits(binfbx[1])

\* The decoded objects the invariant starts from do satisfy it.
TrailerFitsAtDecode ==
    (binfbx # <<>> /\ ~ub /\ CDFMatchesAtDecode /\ removes = 0) => TrailerFits(binfbx[1])

\* Every mesh of both groups has been removed from an object that had
\* triangles, and the CDF still has entries.
TrailerStaleAfterRemovingAll ==
    /\ Removed /\ ~ub /\ CDFMatchesAtDecode /\ lastRemove[1].pos > 0
    /\ AllMeshes(binfbx[1]) = <<>>
    /\ TrailerFits(lastRemove[1].pre)
    /\ Len(binfbx[1].mTriangleAreaCDF) > 0

\* The trailing block of an object.
TrailerOf(obj) == <<obj.mTailReserved0, obj.mTotalSurfaceArea, obj.mTriangleAreaCDF>>

\* The areas (in halves) the meshes of an object yield, in order.
AreasOf(obj) == AccumulateAll(AllMeshes(obj), [ok |-> FALSE, areas |-> <<>>]).areas

\* The trailer is the one rebuilt from the areas, whose sum is total.
Rebuilt(obj, areas, total) ==
    /\ obj.mTailReserved0 = 0
    /\ obj.mTotalSurfaceArea = FloatBits(total, 2)
    /\ Len(obj.mTriangleAreaCDF) = Len(areas)
    /\ obj.mTriangleAreaCDF[Len(areas)] = FloatOne
    /\ \A i \in 1..(Len(areas) - 1) :
          total > 0 => obj.mTriangleAreaCDF[i] = FloatBits(Sum(areas, i), total)

\* What RecomputeTrailerFromMeshes made of the trailer of pre: it is kept
\* when there are no areas (and, if zeroKeeps, when they sum to zero) and
\* rebuilt otherwise.
RecomputeOutcome(pre, post, areas, zeroKeeps) ==
    IF areas = <<>> \/ (zeroKeeps /\ Sum(areas, Len(areas)) = 0)
    THEN TrailerOf(post) = TrailerOf(pre)
    ELSE Rebuilt(post, areas, Sum(areas, Len(areas)))

RecomputeRebuilt ==
    /\ Removed /\ lastRemove[1].pos > 0
    /\ lastRemove[1].pre.mTailReserved0 # 0
    /\ Len(AreasOf(binfbx[1])) > 1
    /\ Rebuilt(binfbx[1], AreasOf(binfbx[1]), Sum(AreasOf(binfbx[1]), Len(AreasOf(binfbx[1]))))

\* The members RemoveMesh has no statement for.
FrameOf(obj) ==
    <<obj.mVertexBuffers, obj.mIndexBuffer, obj.mIndexSize, obj.mJoints,
      obj.mReservedInts, obj.mGlobalScale, obj.mLODThresholds, obj.mMirrorSign,
      obj.mAABBCenter, obj.mBoundingSphereRadius, obj.mAABBMin, obj.mAABBMax,
      obj.mGlobalLODCount, obj.mMaterials>>

\* The object as the constructor has it behind the materials: the blocks
\* that follow (maps, meshes, trailer) assign none of the members of FrameOf.
DecodedUpToMaterials(aBuffer) ==
    ReadMaterials(aBuffer,
      ReadGlobalParams(aBuffer, ReadJoints(aBuffer, ReadBuffers(aBuffer))))

\* The offset behind the last material of the file.
MaterialsEnd(aBuffer) == DecodedUpToMaterials(aBuffer).it

\* obj has the frame of the decoded object st.v, and a file written after a
\* removal starts with the bytes of the input up to st.it.
FrameKept(obj, st) ==
    /\ FrameOf(obj) = FrameOf(st.v)
    /\ (output # <<>> /\ removes > 0) =>
          SubSeq(output[1], 1, st.it) = SubSeq(buffer, 1, st.it)

\* C19: RemoveMesh frame.  After any sequence of RemoveMesh calls the shared
\* vertex buffers, the shared index buffer, the index width, the joints,
\* the global parameters and the materials are the decoded ones, and Write
\* emits the header, shared buffers, joints, global parameters and materials
\* of the input byte for byte.
RemoveMeshFrame ==
    (binfbx # <<>> /\ ~ub) => FrameKept(binfbx[1], DecodedUpToMaterials(buffer))

\* A file written after every mesh was removed that still holds the
\* shared buffers and a material.
RemoveMeshFrameReached ==
    /\ Removed /\ ~ub /\ lastRemove[1].pos > 0 /\ pc = "done" /\ output # <<>>
    /\ AllMeshes(binfbx[1]) = <<>>
    /\ binfbx[1].mMaterials # <<>>
    /\ binfbx[1].mVertexBuffers[1] # <<>> /\ binfbx[1].mIndexBuffer # <<>>
    /\ Len(output[1]) >= MaterialsEnd(buffer)
    /\ SubSeq(output[1], 1, MaterialsEnd(buffer)) = SubSeq(buffer, 1, MaterialsEnd(buffer))

\* C20: group-1 removal frame.  RemoveMesh with group 1 on a mesh found at
\* position p erases mesh p of mMeshes[1] and entry p of mMaterialMaps[1]
\* and leaves mMeshes[0], mMaterialMaps[0] and the alternate material maps
\* as they were; a call changes the alternate material maps only when the
\* group is 0 and the position found is within their range.
Group1RemovalFrame ==
    Removed =>
        /\ (lastRemove[1].aGroup = 1 /\ lastRemove[1].pos > 0) =>
              /\ binfbx[1].mMeshes[2]
                   = EraseAt(lastRemove[1].pre.mMeshes[2], lastRemove[1].pos)
              /\ binfbx[1].mMaterialMaps[2]
                   = EraseAt(lastRemove[1].pre.mMaterialMaps[2], lastRemove[1].pos)
              /\ binfbx[1].mMeshes[1] = lastRemove[1].pre.mMeshes[1]
              /\ binfbx[1].mMaterialMaps[1] = lastRemove[1].pre.mMaterialMaps[1]
              /\ binfbx[1].mAlternateMaterialMaps = lastRemove[1].pre.mAlternateMaterialMaps
        /\ binfbx[1].mAlternateMaterialMaps # lastRemove[1].pre.mAlternateMaterialMaps =>
              /\ lastRemove[1].aGroup = 0
              /\ lastRemove[1].pos > 0
              /\ lastRemove[1].pos <= Len(lastRemove[1].pre.mAlternateMaterialMaps)

\* A mesh of group 1 was removed from an object that has an alternate
\* material map and meshes in group 0.
Group1RemovalReached ==
    /\ Removed /\ lastRemove[1].aGroup = 1 /\ lastRemove[1].pos > 0
    /\ lastRemove[1].pre.mAlternateMaterialMaps # <<>>
    /\ lastRemove[1].pre.mMeshes[1] # <<>>
    /\ Len(binfbx[1].mMeshes[2]) = Len(lastRemove[1].pre.mMeshes[2]) - 1
    /\ binfbx[1].mAlternateMaterialMaps = lastRemove[1].pre.mAlternateMaterialMaps

\* Two meshes of one group of the object with the same (LOD, index) pair.
SharesIdentifier(obj) ==
    \E g \in 1..2 : \E m, n \in 1..Len(obj.mMeshes[g]) :
        /\ m < n
        /\ obj.mMeshes[g][m].mLOD = obj.mMeshes[g][n].mLOD
        /\ obj.mMeshes[g][m].mIndex = obj.mMeshes[g][n].mIndex

\* C21: (LOD, index) identifies one mesh.  In the object the constructor
\* leaves, no two meshes of one group have the same (LOD, index) pair,
\* whatever the order of the LOD values of the mesh records is, so a
\* RemoveMesh call matches at most one mesh.
LODIndexIdentifiesOneMesh ==
    (binfbx # <<>> /\ ~ub /\ removes = 0) => ~SharesIdentifier(binfbx[1])

\* A decoded object in which RemoveMesh(0, 0, 0) matches the first and the
\* third mesh of group 0: the LOD values of the records were 0, 1, 0.
LODIndexShared ==
    /\ pc = "constructed" /\ ~ub /\ removes = 0 /\ WellFormed(given)
    /\ Len(binfbx[1].mMeshes[1]) = 3
    /\ Matches(binfbx[1].mMeshes[1][1], 0, 0)
    /\ ~Matches(binfbx[1].mMeshes[1][2], 0, 0)
    /\ Matches(binfbx[1].mMeshes[1][3], 0, 0)

\* The distinct values of the n index slots from `lo` on of the mesh in the
\* shared index buffer, in the order of their first occurrence: those of
\* the first half, then those of the second half that the first has not.
RECURSIVE FirstOccurrencesIn(_, _, _, _)
FirstOccurrencesIn(mesh, aIndexBuffer, lo, n) ==
    IF n <= 0 THEN <<>>
    ELSE IF n = 1
    THEN <<SharedIndex(aIndexBuffer, mesh.mIndexSize, mesh.mIndexBufferOffset, lo)>>
    ELSE LET first == FirstOccurrencesIn(mesh, aIndexBuffer, lo, n \div 2)
             second == FirstOccurrencesIn(mesh, aIndexBuffer, lo + n \div 2, n - n \div 2)
         IN  first \o SelectSeq(second, LAMBDA x : \A k \in 1..Len(first) : first[k] # x)

\* The same for the first s slots.
FirstOccurrences(mesh, aIndexBuffer, s) == FirstOccurrencesIn(mesh, aIndexBuffer, 0, s)

\* The claim of C22 for one mesh whose distinct global indices are, in the
\* order of first occurrence, `order`.
LocalizedInOrder(mesh, aVertexBuffers, aIndexBuffer, order, stride) ==
    /\ \A b \in 1..2 :
          /\ Len(mesh.mVertexBuffers[b]) = Len(order) * stride[b]
          /\ \A n \in 1..Len(order) :
                Bytes(mesh.mVertexBuffers[b], (n - 1) * stride[b], stride[b])
                  = Bytes(aVertexBuffers[b],
                          mesh.mVertexBufferOffsets[b] + order[n] * stride[b], stride[b])
    /\ \A s \in 0..(mesh.mTriangleCount * 3 - 1) :
          \E n \in 1..Len(order) :
              /\ order[n] = SharedIndex(aIndexBuffer, mesh.mIndexSize,
                                        mesh.mIndexBufferOffset, s)
              /\ LEValue(Bytes(mesh.mIndexBuffer, s * mesh.mIndexSize, mesh.mIndexSize))
                    = n - 1

\* C22: localization order and content.  The constructor of a mesh gives
\* the distinct global indices of its triangleCount * 3 index slots the local
\* indices 0, 1, 2, ... in the order of their first occurrence; local vertex
\* n of buffer b is the stride_b bytes of shared buffer b at
\* vertexBufferOffsets[b] + globalIndex * stride_b, stored once; and local
\* index slot s holds the local index of the global index of shared slot
\* indexBufferOffset + s (index widths 1, 2, 4, 8, reads inside the shared
\* buffers).
LocalizationOrderAndContent ==
    (binfbx # <<>> /\ ~ub /\ removes = 0) =>
        \A n \in 1..Len(AllMeshes(binfbx[1])) :
            ValidIndexSize(AllMeshes(binfbx[1])[n].mIndexSize) =>
                LocalizedInOrder(AllMeshes(binfbx[1])[n], binfbx[1].mVertexBuffers,
                                 binfbx[1].mIndexBuffer,
                                 FirstOccurrences(AllMeshes(binfbx[1])[n],
                                                  binfbx[1].mIndexBuffer,
                                                  AllMeshes(binfbx[1])[n].mTriangleCount * 3),
                                 GetVertexSizes(AllMeshes(binfbx[1])[n]))

\* A mesh whose slots hold the global indices 3, 1, 3: global 3 is local 0
\* and global 1 is local 1, and the local slots hold 0, 1, 0.
LocalizationOrderReached ==
    /\ binfbx # <<>> /\ ~ub /\ removes = 0
    /\ \E n \in 1..Len(AllMeshes(binfbx[1])) :
          /\ AllMeshes(binfbx[1])[n].mIndexSize = 2
          /\ FirstOccurrences(AllMeshes(binfbx[1])[n], binfbx[1].mIndexBuffer, 3) = <<3, 1>>
          /\ AllMeshes(binfbx[1])[n].mIndexBuffer = <<0, 0, 1, 0, 0, 0>>
          /\ Len(AllMeshes(binfbx[1])[n].mVertexBuffers[1]) = 24

\* The constructor state in front of the count of mesh group 0.
DecodedUpToMeshes(aBuffer) ==
    ReadMaterialMap(aBuffer,
      ReadAlternateMaterialMaps(aBuffer,
        ReadMaterialMap(aBuffer, DecodedUpToMaterials(aBuffer), 1)), 2)

\* Where the Mesh constructor leaves the iterator for the record at `it`.
MeshRecordEnd(mem, it) == AttributeInfos(mem, it + 73, ByteAt(mem, it + 72)).it + 13

\* The offset behind the records of the meshes from the k-th on, the first
\* of them at `it`, when Mesh::Write gives for each mesh the bytes its
\* constructor consumed: 73 bytes with the count in the last of them, 4
\* bytes for each attribute, 13 bytes; -1 otherwise.
RECURSIVE MeshRecordsRewritten(_, _, _, _)
MeshRecordsRewritten(mem, it, meshes, k) ==
    IF k > Len(meshes) THEN it
    ELSE IF /\ MeshWrite(meshes[k]) = Bytes(mem, it, MeshRecordEnd(mem, it) - it)
            /\ Len(MeshWrite(meshes[k])) = 86 + 4 * Len(meshes[k].mAttributeInfos)
            /\ MeshWrite(meshes[k])[73] = Len(meshes[k].mAttributeInfos)
         THEN MeshRecordsRewritten(mem, MeshRecordEnd(mem, it), meshes, k + 1)
         ELSE -1

\* Both groups, the count of group 0 at `it`.
MeshGroupsRewritten(mem, it, obj, end0) ==
    /\ end0 >= 0
    /\ MeshRecordsRewritten(mem, end0 + 4, obj.mMeshes[2], 1) >= 0

\* C23: mesh record round trip.  For every mesh record the constructor
\* decoded (attribute counts from 0 to 255), Mesh::Write emits the bytes the
\* constructor consumed, in the same order, the attribute count as one byte
\* followed by 4 bytes for each AttributeInfo, and no byte of the local
\* vertex and index buffers of the mesh.
MeshRecordRoundTrip ==
    (binfbx # <<>> /\ ~ub /\ removes = 0) =>
        MeshGroupsRewritten(buffer, DecodedUpToMeshes(buffer).it, binfbx[1],
                            MeshRecordsRewritten(buffer, DecodedUpToMeshes(buffer).it + 4,
                                                 binfbx[1].mMeshes[1], 1))

\* A written file whose meshes are one with 255 attributes and one with
\* local buffers that hold bytes.
MeshRecordRoundTripReached ==
    /\ pc = "done" /\ output # <<>> /\ ~ub /\ removes = 0
    /\ Len(binfbx[1].mMeshes[1]) = 1 /\ Len(binfbx[1].mMeshes[2]) = 1
    /\ Len(binfbx[1].mMeshes[1][1].mAttributeInfos) = MaxAttributeCount
    /\ Len(MeshWrite(binfbx[1].mMeshes[1][1])) = 1106
    /\ binfbx[1].mMeshes[2][1].mIndexBuffer # <<>>
    /\ binfbx[1].mMeshes[2][1].mVertexBuffers[1] # <<>>
    /\ output[1] = buffer

\* The number of payload bytes the claim gives for a decoded variable.
PayloadSize(u) ==
    CASE u.mUniformType = Float -> 4
      [] u.mUniformType = Range -> 8
      [] u.mUniformType = Vector -> 12
      [] u.mUniformType = Color -> 16
      [] u.mUniformType = Boolean -> 4
      [] u.mUniformType = TextureMap -> 4 + Len(u.mData)
      [] u.mUniformType = TextureSampler -> 0
      [] u.mUniformType = NoPayload -> 0

\* The offset of the first uniform variable of the material decoded from
\* `it`: behind the magick, the id, three strings, the parameters, the count.
UniformsStart(it, m) ==
    it + 4 + 8 + (4 + Len(m.mName)) + (4 + Len(m.mType)) + (4 + Len(m.mPath)) + 24 + 4

\* The offset behind the variables from the k-th on, the first of them at
\* `it`, when for each one with a tag of the enum the constructor consumed
\* the name, the tag and PayloadSize bytes and Write emits those bytes; -1
\* otherwise.
RECURSIVE UniformsRewritten(_, _, _, _)
UniformsRewritten(mem, it, us, k) ==
    IF k > Len(us) THEN it
    ELSE IF us[k].mUniformType \in KnownTags =>
               /\ UniformVariableCtor(mem, it).it
                     = it + 4 + Len(us[k].mName) + 4 + PayloadSize(us[k])
               /\ UniformVariableWrite(us[k])
                     = Bytes(mem, it, UniformVariableCtor(mem, it).it - it)
         THEN UniformsRewritten(mem, UniformVariableCtor(mem, it).it, us, k + 1)
         ELSE -1

\* The same for the materials from the k-th on, the first of them at `it`.
RECURSIVE MaterialUniformsRewritten(_, _, _, _)
MaterialUniformsRewritten(mem, it, ms, k) ==
    IF k > Len(ms) THEN TRUE
    ELSE /\ UniformsRewritten(mem, UniformsStart(it, ms[k]), ms[k].mUniformVariables, 1)
              = MaterialCtor(mem, it).it
         /\ MaterialUniformsRewritten(mem, MaterialCtor(mem, it).it, ms, k + 1)

\* C24: UniformVariable round trip.  For every decoded uniform variable
\* with a tag of the enum, the number of payload bytes the constructor
\* consumed is the one of its tag (Float 4, Range 8, Vector 12, Color 16,
\* Boolean 4, TextureMap 4 + string length, TextureSampler 0, NoPayload 0),
\* and UniformVariable::Write emits the name, tag and payload bytes the
\* constructor consumed.
UniformVariableRoundTrip ==
    (binfbx # <<>> /\ ~ub /\ removes = 0) =>
        MaterialUniformsRewritten(
            buffer,
            ReadGlobalParams(buffer, ReadJoints(buffer, ReadBuffers(buffer))).it + 4,
            binfbx[1].mMaterials, 1)

\* A written file with a material whose variables are a Float and a
\* TextureMap with a string of two characters.
UniformVariableRoundTripReached ==
    /\ pc = "done" /\ output # <<>> /\ ~ub /\ removes = 0
    /\ \E m \in 1..Len(binfbx[1].mMaterials) :
          /\ Len(binfbx[1].mMaterials[m].mUniformVariables) = 2
          /\ binfbx[1].mMaterials[m].mUniformVariables[1].mUniformType = Float
          /\ binfbx[1].mMaterials[m].mUniformVariables[2].mUniformType = TextureMap
          /\ Len(UniformVariableWrite(binfbx[1].mMaterials[m].mUniformVariables[2])) = 16

\* The mesh has an attribute with format FLOAT3 and usage 0.
HasPosition(mesh) ==
    \E n \in 1..Len(mesh.mAttributeInfos) :
        mesh.mAttributeInfos[n].Type = FLOAT3 /\ mesh.mAttributeInfos[n].Usage = 0

\* The area (in halves) of triangle i of the mesh, from the shared buffers
\* of the object: the positions are the first three floats of the vertices
\* the shared index slots of the triangle name, in shared buffer b.
SharedTriangleArea(obj, mesh, b, i) ==
    LET pos(j) == [c \in 1..3 |-> FloatValue(Bytes(obj.mVertexBuffers[b],
                      mesh.mVertexBufferOffsets[b]
                        + SharedIndex(obj.mIndexBuffer, mesh.mIndexSize,
                                      mesh.mIndexBufferOffset, i * 3 + j)
                          * GetVertexSizes(mesh)[b]
                        + (c - 1) * 4, 4))]
    IN  Norm(Cross(Sub(pos(1), pos(0)), Sub(pos(2), pos(0))))

\* The claim of C25 for one call with the result r on the sequence `out`.
AccumulatedAsClaimed(obj, mesh, out, r) ==
    IF ~HasPosition(mesh) THEN ~r.ok /\ r.out = out
    ELSE ValidIndexSize(mesh.mIndexSize) =>
            /\ r.ok
            /\ Len(r.out) = Len(out) + mesh.mTriangleCount
            /\ SubSeq(r.out, 1, Len(out)) = out
            /\ \A i \in 1..mesh.mTriangleCount :
                  r.out[Len(out) + i]
                    = SharedTriangleArea(obj, mesh,
                                         PositionBuffer(mesh.mAttributeInfos) + 1, i - 1)

\* The areas RecomputeTrailerFromMeshes has collected in front of mesh n.
AreasBefore(obj, n) ==
    AccumulateAll(SubSeq(AllMeshes(obj), 1, n - 1), [ok |-> FALSE, areas |-> <<>>]).areas

\* C25: AccumulateTriangleAreas result.  For a mesh without an attribute of
\* format FLOAT3 and usage 0 the call returns false and appends nothing; for
\* a mesh with one (index widths 1, 2, 4, 8) it returns true and appends
\* triangleCount values, one for each triangle in the order of the index
\* buffer, behind the entries the sequence held (the calls are the ones
\* RemoveMesh makes through RecomputeTrailerFromMeshes).
AccumulateResult ==
    (Removed /\ lastRemove[1].pos > 0) =>
        \A n \in 1..Len(AllMeshes(binfbx[1])) :
            AccumulatedAsClaimed(binfbx[1], AllMeshes(binfbx[1])[n], AreasBefore(binfbx[1], n),
                                 AccumulateTriangleAreas(AllMeshes(binfbx[1])[n],
                                                         AreasBefore(binfbx[1], n)))

\* A removal after which the calls met a mesh of two triangles with
\* positions behind a mesh without positions behind a mesh with positions.
AccumulateResultReached ==
    /\ Removed /\ lastRemove[1].pos > 0
    /\ Len(AllMeshes(binfbx[1])) >= 3
    /\ HasPosition(AllMeshes(binfbx[1])[1])
    /\ ~HasPosition(AllMeshes(binfbx[1])[2])
    /\ AllMeshes(binfbx[1])[3].mTriangleCount = 2
    /\ AreasBefore(binfbx[1], 2) = AreasBefore(binfbx[1], 3)
    /\ Len(AreasBefore(binfbx[1], 2)) = 1
    /\ AccumulateTriangleAreas(AllMeshes(binfbx[1])[3], AreasBefore(binfbx[1], 3)).out
          = AreasBefore(binfbx[1], 3) \o <<4, 4>>

\* The surviving meshes of the last successful call: the group of the call
\* is the group before without the mesh at the position found, the other
\* group is as before, and every pair that named another mesh than the
\* removed one names the same mesh afterwards.
SurvivorsUnchanged(call, post) ==
    /\ post.mMeshes[call.aGroup + 1] = EraseAt(call.pre.mMeshes[call.aGroup + 1], call.pos)
    /\ post.mMeshes[2 - call.aGroup] = call.pre.mMeshes[2 - call.aGroup]
    /\ \A l \in RemoveLODs, i \in RemoveIndexes :
          (/\ FindMesh(call.pre.mMeshes[call.aGroup + 1], l, i) > 0
           /\ FindMesh(call.pre.mMeshes[call.aGroup + 1], l, i) # call.pos) =>
              /\ FindMesh(post.mMeshes[call.aGroup + 1], l, i) > 0
              /\ post.mMeshes[call.aGroup + 1][FindMesh(post.mMeshes[call.aGroup + 1], l, i)]
                    = call.pre.mMeshes[call.aGroup + 1]
                                      [FindMesh(call.pre.mMeshes[call.aGroup + 1], l, i)]

\* The survivors of every successful call are unchanged (the part of C27
\* the code keeps).
SurvivorsKeepTheirPairs ==
    (Removed /\ lastRemove[1].pos > 0) => SurvivorsUnchanged(lastRemove[1], binfbx[1])

\* C27: survivors keep their identifiers.  A successful RemoveMesh leaves
\* every surviving mesh of both groups with its (LOD, index) pair and in its
\* order, a triple that named another mesh still names that mesh, and the
\* triple of the removed mesh names no mesh any more, so that repeating
\* the call finds nothing.
SurvivorsKeepIdentifiers ==
    (Removed /\ lastRemove[1].pos > 0) =>
        /\ SurvivorsUnchanged(lastRemove[1], binfbx[1])
        /\ FindMesh(binfbx[1].mMeshes[lastRemove[1].aGroup + 1],
                    lastRemove[1].aLOD, lastRemove[1].aIndex) = 0

\* A successful call after which its own triple names another mesh: the
\* repeated call removes a second mesh.
RemovedTripleStillNames ==
    /\ Removed /\ lastRemove[1].pos > 0 /\ WellFormed(given)
    /\ FindMesh(binfbx[1].mMeshes[lastRemove[1].aGroup + 1],
                lastRemove[1].aLOD, lastRemove[1].aIndex) > 0

\* The triples <<group, LOD, index>> that name a mesh of the object.
RemoveTriplesOf(obj) ==
    { t \in RemoveGroups \X RemoveLODs \X RemoveIndexes :
        FindMesh(obj.mMeshes[t[1] + 1], t[2], t[3]) > 0 }

\* RemoveMesh with the triple t, and whether it stays defined.
RemoveTriple(obj, t) == RemoveMesh(obj, t[1], t[2], t[3])
RemoveTripleDefined(obj, t) == RemoveMeshDefined(obj, t[1], t[2], t[3])

\* The parts of the object a removal works on.
RemovalState(obj) ==
    <<obj.mMeshes, obj.mMaterialMaps, obj.mAlternateMaterialMaps, TrailerOf(obj)>>
RemovalStateButTrailer(obj) ==
    <<obj.mMeshes, obj.mMaterialMaps, obj.mAlternateMaterialMaps>>

\* The triples b, other than the triple a of the last call, that named a
\* mesh of the object before that call and can be removed before and after a.
SecondTriples(call, post) ==
    { b \in RemoveTriplesOf(call.pre) :
        /\ b # <<call.aGroup, call.aLOD, call.aIndex>>
        /\ RemoveTripleDefined(call.pre, b)
        /\ RemoveTripleDefined(post, b)
        /\ RemoveTripleDefined(RemoveTriple(call.pre, b),
                               <<call.aGroup, call.aLOD, call.aIndex>>) }

\* C28: removal order independence.  After the successful first call
\* RemoveMesh(a) on a decoded object, for every other triple b that names a
\* mesh of the decoded object, RemoveMesh(b) now gives the mesh groups,
\* material maps, alternate material maps and trailer (reserved word, total
\* surface area, CDF) that RemoveMesh(b) followed by RemoveMesh(a) gives on
\* the decoded object, also when meshes have no position attribute.
RemovalOrderIndependence ==
    (Removed /\ lastRemove[1].pos > 0 /\ removes = 1) =>
        \A b \in SecondTriples(lastRemove[1], binfbx[1]) :
            RemovalState(RemoveTriple(binfbx[1], b))
              = RemovalState(RemoveTriple(RemoveTriple(lastRemove[1].pre, b),
                                          <<lastRemove[1].aGroup, lastRemove[1].aLOD,
                                            lastRemove[1].aIndex>>))

\* The same without the trailer (the part of C28 the code keeps).
RemovalOrderIndependenceButTrailer ==
    (Removed /\ lastRemove[1].pos > 0 /\ removes = 1) =>
        \A b \in SecondTriples(lastRemove[1], binfbx[1]) :
            RemovalStateButTrailer(RemoveTriple(binfbx[1], b))
              = RemovalStateButTrailer(
                  RemoveTriple(RemoveTriple(lastRemove[1].pre, b),
                               <<lastRemove[1].aGroup, lastRemove[1].aLOD,
                                 lastRemove[1].aIndex>>))

\* Two successful calls a, b on a decoded well-formed object, after which
\* the trailer is another one than b followed by a leaves.
RemovalOrderMatters ==
    /\ Removed /\ lastRemove[1].pos > 0 /\ removes = 2 /\ WellFormed(given)
    /\ \E a \in RemoveTriplesOf(BinFBXCtor(buffer).v) :
          /\ a # <<lastRemove[1].aGroup, lastRemove[1].aLOD, lastRemove[1].aIndex>>
          /\ RemoveTriple(BinFBXCtor(buffer).v, a) = lastRemove[1].pre
          /\ <<lastRemove[1].aGroup, lastRemove[1].aLOD, lastRemove[1].aIndex>>
                \in RemoveTriplesOf(BinFBXCtor(buffer).v)
          /\ RemovalStateButTrailer(binfbx[1])
                = RemovalStateButTrailer(
                    RemoveTriple(RemoveTriple(BinFBXCtor(buffer).v,
                                              <<lastRemove[1].aGroup, lastRemove[1].aLOD,
                                                lastRemove[1].aIndex>>), a))
          /\ TrailerOf(binfbx[1])
                # TrailerOf(RemoveTriple(RemoveTriple(BinFBXCtor(buffer).v,
                                                      <<lastRemove[1].aGroup,
                                                        lastRemove[1].aLOD,
                                                        lastRemove[1].aIndex>>), a))

\* C29: length equality is preserved by removal.  When both material maps
\* are as long as their mesh groups before a RemoveMesh call, they are after
\* it, whether the call removed a mesh or found none; the entry erased is
\* the one at the position of the removed mesh, and the entries of the
\* surviving meshes keep their values and stay aligned with their meshes.
MapLengthPreservedByRemoval ==
    (Removed /\ MapsMatchMeshes(lastRemove[1].pre)) =>
        /\ MapsMatchMeshes(binfbx[1])
        /\ IF lastRemove[1].pos = 0
           THEN /\ binfbx[1].mMaterialMaps = lastRemove[1].pre.mMaterialMaps
                /\ binfbx[1].mMeshes = lastRemove[1].pre.mMeshes
           ELSE /\ binfbx[1].mMaterialMaps[lastRemove[1].aGroup + 1]
                     = EraseAt(lastRemove[1].pre.mMaterialMaps[lastRemove[1].aGroup + 1],
                               lastRemove[1].pos)
                /\ binfbx[1].mMeshes[lastRemove[1].aGroup + 1]
                     = EraseAt(lastRemove[1].pre.mMeshes[lastRemove[1].aGroup + 1],
                               lastRemove[1].pos)
                /\ binfbx[1].mMaterialMaps[2 - lastRemove[1].aGroup]
                     = lastRemove[1].pre.mMaterialMaps[2 - lastRemove[1].aGroup]
                /\ binfbx[1].mMeshes[2 - lastRemove[1].aGroup]
                     = lastRemove[1].pre.mMeshes[2 - lastRemove[1].aGroup]

\* The first of three meshes of group 0 removed: the material map
\* <<0, 1, 2>> has become <<1, 2>>.
MapLengthPreservedReached ==
    /\ Removed /\ lastRemove[1].pos = 1 /\ lastRemove[1].aGroup = 0
    /\ lastRemove[1].pre.mMaterialMaps[1] = <<0, 1, 2>>
    /\ Len(lastRemove[1].pre.mMeshes[1]) = 3
    /\ binfbx[1].mMaterialMaps[1] = <<1, 2>>
    /\ Len(binfbx[1].mMeshes[1]) = 2

\* The claim of C30 for one mesh whose distinct global indices are, in the
\* order of first occurrence, `order`: the local index n - 1 of the n-th of
\* them is the value of its own w bytes, and it is what the read of
\* AccumulateTriangleAreas finds in every slot that names it.
LocalIndicesFitFor(mesh, aIndexBuffer, order) ==
    /\ \A n \in 1..Len(order) : LEValue(LEBytes(n - 1, mesh.mIndexSize)) = n - 1
    /\ (mesh.mIndexSize = 1) => Len(order) <= ByteValues
    /\ \A i \in 0..(mesh.mTriangleCount - 1) : \A j \in 0..2 :
          \E n \in 1..Len(order) :
              /\ order[n] = SharedIndex(aIndexBuffer, mesh.mIndexSize,
                                        mesh.mIndexBufferOffset, i * 3 + j)
              /\ LocalIndexAt(mesh, i, j) = n - 1

\* C30: local indices fit the index width.  For the index widths 1, 2, 4
\* and 8, every local index the constructor of a mesh writes into the local
\* index buffer is kept whole by the bytes of that width, and the read of
\* AccumulateTriangleAreas gives the assigned local index (a mesh of width 1
\* has at most 256 distinct vertices, with the local indices 0..255).
LocalIndicesFit ==
    (binfbx # <<>> /\ ~ub /\ removes = 0) =>
        \A n \in 1..Len(AllMeshes(binfbx[1])) :
            ValidIndexSize(AllMeshes(binfbx[1])[n].mIndexSize) =>
                LocalIndicesFitFor(AllMeshes(binfbx[1])[n], binfbx[1].mIndexBuffer,
                                   FirstOccurrences(AllMeshes(binfbx[1])[n],
                                                    binfbx[1].mIndexBuffer,
                                                    AllMeshes(binfbx[1])[n].mTriangleCount * 3))

\* A mesh of index width 1 with 256 distinct vertices: slot 255 holds the
\* local index 255 and the two slots behind it hold 0 and 1 again.
LocalIndicesFitReached ==
    /\ binfbx # <<>> /\ ~ub /\ removes = 0
    /\ binfbx[1].mIndexSize = 1
    /\ binfbx[1].mMeshes[1] # <<>>
    /\ binfbx[1].mMeshes[1][1].mTriangleCount = 86
    /\ Len(binfbx[1].mMeshes[1][1].mVertexBuffers[1]) = 12 * ByteValues
    /\ LocalIndexAt(binfbx[1].mMeshes[1][1], 85, 0) = 255
    /\ LocalIndexAt(binfbx[1].mMeshes[1][1], 85, 1) = 0
    /\ LocalIndexAt(binfbx[1].mMeshes[1][1], 85, 2) = 1

(***************************************************************************)
(* Properties of the tool (ToolSpec).                                      *)
(***************************************************************************)
\* The command line runs the mesh tool.
RunsMeshTool == Len(argv) >= 1 /\ argv[1] = ToolName

Digit(arg) == IF arg = <<"1">> THEN 1 ELSE 0

\* The <group, lod, index> triples that follow --remove on the command
\* line, in the order given.
RECURSIVE RemoveTriples(_, _)
RemoveTriples(args, i) ==
    IF i > Len(args) THEN <<>>
    ELSE IF args[i] = OptRemove /\ i + 3 <= Len(args)
         THEN <<<<Digit(args[i + 1]), Digit(args[i + 2]), Digit(args[i + 3])>>>>
              \o RemoveTriples(args, i + 4)
    ELSE RemoveTriples(args, i + 1)

\* RemoveMesh called once for each triple, in order.
RECURSIVE ApplyRemoves(_, _)
ApplyRemoves(obj, triples) ==
    IF triples = <<>> THEN obj
    ELSE ApplyRemoves(RemoveMesh(obj, triples[1][1], triples[1][2], triples[1][3]),
                      Tail(triples))

\* C16: CLI removal ordering.  A run of the mesh tool that ends with 0 has
\* called RemoveMesh once for each --remove triple of the command line, in
\* the order given, after the decode and before Write or Dump: the object
\* written or dumped is the decoded one with all of them applied.
CLIRemovalOrdering ==
    (RunsMeshTool /\ pc = "exited" /\ retval = <<0>> /\ binfbx # <<>>) =>
        /\ binfbx[1] = ApplyRemoves(BinFBXCtor(buffer).v, RemoveTriples(argv, 2))
        /\ removes = Len(RemoveTriples(argv, 2))

\* A run that ended with 0 although the command line asked to remove a
\* mesh the decoded object has: the mesh is still there and RemoveMesh was
\* never called.
CLIRemoveIgnored ==
    /\ RunsMeshTool /\ pc = "exited" /\ retval = <<0>> /\ binfbx # <<>>
    /\ RemoveTriples(argv, 2) # <<>>
    /\ FindMesh(binfbx[1].mMeshes[RemoveTriples(argv, 2)[1][1] + 1],
                RemoveTriples(argv, 2)[1][2], RemoveTriples(argv, 2)[1][3]) > 0
    /\ removes = 0
    /\ binfbx[1] = BinFBXCtor(buffer).v
    /\ (output # <<>> \/ dumped)

\* --dump is one of the arguments.
DumpRequested == \E i \in 2..Len(argv) : argv[i] = OptDump

\* An output path follows -o or --out.
OutputRequested ==
    \E i \in 2..(Len(argv) - 1) : argv[i] \in {ShortOut, OptOut} /\ argv[i + 1] = OutPath

\* C17: CLI write and dump are independent.  A successful run writes the
\* container exactly when an output path was given and prints the dump
\* exactly when --dump was given: both when both were given, neither when
\* neither was.
CLIWriteAndDumpIndependent ==
    (RunsMeshTool /\ pc = "exited" /\ retval = <<0>>) =>
        /\ (output # <<>>) <=> OutputRequested
        /\ dumped <=> DumpRequested

\* A successful run with an output path and --dump that wrote the file and
\* printed no dump.
CLIDumpSkipped ==
    /\ RunsMeshTool /\ pc = "exited" /\ retval = <<0>>
    /\ OutputRequested /\ DumpRequested
    /\ output # <<>> /\ ~dumped

\* A condition the tool reports as fatal: no input argument, an input file
\* that cannot be read, a header or material magick mismatch, an output path
\* that cannot be written.
FatalCondition ==
    \/ mInputFile = <<>>
    \/ ~Readable(mInputFile)
    \/ given.badMagick
    \/ given.badMaterial # 0
    \/ (mOutputFile # <<>> /\ ~Writable(mOutputFile))

====
